---- MODULE Spec2Model ----
(***************************************************************************)
(* A model of the model-bridge gateway: the pure domain components of      *)
(* mb-core (rate limiter, quota tracker, auth service, router, cache       *)
(* affinity map, backend state) and the request pipeline and health probe  *)
(* loop of mb-server that drive them.                                      *)
(*                                                                         *)
(* Each component has its own specification (SpecRateLimiter, SpecAuth,    *)
(* ...) over its own variables; the variables of the other components are  *)
(* held at their idle values.                                              *)
(***************************************************************************)
EXTENDS Integers, Sequences, FiniteSets, TLC

VARIABLES
    limiter,        \* RateLimiter {window_ms, limit, timestamps}
    rlNow,          \* the clock value of the latest RateLimiter::check call
    rlLast,         \* the latest RateLimiter::check call: input, state before, result
    clients,        \* AuthService.clients: a sequence of [key, info]
    authLast,       \* the latest AuthService::validate call: key presented, result
    usage,          \* QuotaTracker.usage: ClientId -> MonthlyUsage, a partial map
    quotaLast,      \* the latest QuotaTracker call: inputs, usage before, result
    snapshot,       \* the &[BackendState] slice handed to select_backend
    routeLast,      \* the latest select_backend call: inputs, result
    affinity,       \* CacheAffinityMap {entries, max_entries, counter}
    affLast,        \* the latest CacheAffinityMap call: inputs, entries before, result
    backend_states, \* SharedBackendStates: BackendId -> BackendState
    healthCfg,      \* unhealthy_threshold and degraded_latency_ms of the probe loop
    probe,          \* the probe loop: the backend it is at, the probe result in hand
    healthLast,     \* the latest probe applied: backend, result, state before
    appCfg,         \* AppState.routing_strategy and AppState.cache_config
    rate_limiters,  \* AppState.rate_limiters: ClientId -> RateLimiter
    round_counter,  \* AppState.round_counter
    wall,           \* the system clock: now_ms() and current_year_month()
    reqs,           \* the requests in flight: position and locals of each
    pipeLast,       \* the latest pipeline step: request, step, what it read
    gateClock,      \* the system clock the concurrent requests of one client read
    gateLimiters,   \* AppState.rate_limiters under those concurrent requests
    gateReqs,       \* the concurrent requests: position, now_ms read, verdict
    upstream,       \* the backend's response byte stream: what it has yielded, how it ended
    sseBuffer,      \* SseLineParser.buffer
    stream,         \* make_event_stream: its position, arguments and `finished`
    yielded,        \* the lines SseLineParser has yielded to the loop
    events,         \* the SSE events yielded to the client
    fbStore,        \* the feedback store: conversations, turns, annotations, CLA records
    exportLast,     \* the latest export_dpo_pairs call: filter, result
    feedback,       \* AppState.feedback: whether the feedback store was opened
    feedbackLast,   \* the latest POST /v1/feedback: request, store before, response
    errLast,        \* the latest gateway_error_to_response call: error, response
    rr,             \* round-robin routing: the state map's value order, round_counter, the requests
    dispatch,       \* POST /v1/chat/completions: the router serving it, the requests served, the latest one
    myLast,         \* the latest GET /v1/my-annotations: request, store read, response
    sse,            \* SseLineParser alone: chunks polled, buffer, lines yielded, end of stream
    feedbackDb,     \* SqliteFeedbackStore alone: the tables, and the latest insert with the store before it
    billing,        \* parse_response and step 14: the quota tracker, the latest backend usage, its canonical usage
    prefixPair,     \* compute_prefix_hash alone: two message lists, the depth, their hashes
    shared_states,  \* SharedBackendStates under its RwLock: the map, the lock, the probe loop, the readers
    load,           \* the backend states of a running gateway and the latest LeastLoaded routing over a snapshot
    chats,          \* record_chat_turns of concurrent chat requests: the feedback store and each call's position
    month_clock,    \* current_year_month alone: the system time, the period computed from it and the one computed before
    sticky          \* cache-aware routing of buffered requests beside the probe loop: states, affinity map, pending and latest request

varsRL == <<limiter, rlNow, rlLast>>
varsAuth == <<clients, authLast>>
varsQuota == <<usage, quotaLast>>
varsRouter == <<snapshot, routeLast>>
varsAff == <<affinity, affLast>>
varsHealth == <<backend_states, healthCfg, probe, healthLast>>
varsPipe == <<appCfg, rate_limiters, round_counter, wall, reqs, pipeLast>>
varsGate == <<gateClock, gateLimiters, gateReqs>>

\* The variables of the later specifications, which the component
\* specifications above leave at their idle values.
varsStream == <<upstream, sseBuffer, stream, yielded, events>>
varsExport == <<fbStore, exportLast>>
varsFeedback == <<feedback, feedbackLast>>
varsErrors == <<errLast>>
varsLater == <<rr, dispatch, myLast, sse, feedbackDb, billing, prefixPair, shared_states, load, chats, month_clock, sticky>>
varsMore == <<varsGate, varsStream, varsExport, varsFeedback, varsErrors,
             varsLater>>

vars == <<limiter, rlNow, rlLast, clients, authLast, usage, quotaLast,
          snapshot, routeLast, affinity, affLast,
          backend_states, healthCfg, probe, healthLast,
          appCfg, rate_limiters, round_counter, wall, reqs, pipeLast,
          gateClock, gateLimiters, gateReqs,
          upstream, sseBuffer, stream, yielded, events,
          fbStore, exportLast, feedback, feedbackLast, errLast,
          rr,
          dispatch,
          myLast,
          sse,
          feedbackDb,
          billing,
          prefixPair,
          shared_states,
          load,
          chats,
          month_clock,
          sticky>>

\* The variables a component's actions leave alone.
othersRL == <<varsAuth, varsQuota, varsRouter, varsAff, varsHealth, varsPipe, varsMore>>
othersAuth == <<varsRL, varsQuota, varsRouter, varsAff, varsHealth, varsPipe, varsMore>>
othersQuota == <<varsRL, varsAuth, varsRouter, varsAff, varsHealth, varsPipe, varsMore>>
othersRouter == <<varsRL, varsAuth, varsQuota, varsAff, varsHealth, varsPipe, varsMore>>
othersAff == <<varsRL, varsAuth, varsQuota, varsRouter, varsHealth, varsPipe, varsMore>>
othersHealth == <<varsRL, varsAuth, varsQuota, varsRouter, varsAff, varsPipe, varsMore>>

(***************************************************************************)
(* Bounds of the model.                                                    *)
(***************************************************************************)
MaxTime == 5        \* clock values are 0..MaxTime
MaxWindow == 2      \* window_ms is drawn from 1..MaxWindow
MaxLimit == 2       \* limit is drawn from 0..MaxLimit
MaxKeyLen == 2      \* API keys are byte strings of length 0..MaxKeyLen
MaxClients == 2     \* the auth service holds 1..MaxClients entries
MaxTokens == 2      \* token counts of one call and monthly limits are 0..MaxTokens
MaxUsed == 4        \* QuotaTracker::record is explored while tokens_used <= MaxUsed
MaxBackends == 2    \* a router snapshot holds 0..MaxBackends backends
MaxConc == 1        \* max_concurrent of a snapshot backend; active_requests is 0..MaxConc
MaxRound == 2       \* the round handed to select_backend is 0..MaxRound
MaxEntries == 2     \* max_entries of the affinity map is drawn from 0..MaxEntries
MaxLatency == 2     \* probe latencies and degraded_latency_ms are 0..MaxLatency
MaxThreshold == 2   \* unhealthy_threshold is drawn from 0..MaxThreshold
MaxFailures == 3    \* probes are explored while consecutive_failures <= MaxFailures
MaxRequests == 1    \* requests that arrive over a pipeline behaviour
MaxInFlight == 1    \* requests the gateway is handling at one time
MaxTicks == 1       \* the clock advances MaxTicks times, one rate window each
MaxCounter == 5     \* the affinity map is explored while counter <= MaxCounter
MaxGateRequests == 4 \* concurrent requests of the one client at the rate-limit step
MaxGateWindows == 1  \* the clock they read spans 0..MaxGateWindows rate windows
MaxGateOffset == 1   \* and 0..MaxGateOffset milliseconds past a window boundary
GateRpm == 2         \* requests_per_minute of that client
MaxReceived == 4     \* characters the backend sends over one streamed response
MaxChunkLen == 2     \* characters of one chunk of the byte stream
MaxTurns == 3        \* turns in the feedback store
MaxAnnotations == 1  \* annotations in the feedback store
MaxStamp == 2        \* created_at of an annotation is 0..MaxStamp
MaxPosted == 2       \* annotations stored through POST /v1/feedback
MaxErrInfo == 4      \* numbers and texts an error carries are 0..MaxErrInfo
MaxRRBackends == 3   \* backends under round-robin routing
MaxRRRequests == 4   \* concurrent requests under round-robin routing
MaxServed == 6       \* chat requests served by one router
MaxLoad == 2         \* max_concurrent of the backends a strategy is applied to; active_requests is 0..MaxLoad
MaxSseBytes == 4     \* bytes the byte stream under SseLineParser yields in all
MaxDbRows == 2       \* rows of each table of the feedback store, and ids 1..MaxDbRows of its turns
MaxChats == 2        \* chat requests whose turns record_chat_turns stores, possibly at once
MaxReadings == 4     \* readings of the system time by current_year_month
MaxSticky == 2       \* buffered requests routed with cache-aware routing
MaxDepth == 2        \* prefix_depth of compute_prefix_hash is 0..MaxDepth
MaxMessages == 3     \* messages of a list handed to compute_prefix_hash

(***************************************************************************)
(* Values of the model.                                                    *)
(***************************************************************************)
\* Option<T>: None is the empty sequence, Some(v) the sequence <<v>>.
None == <<>>
Some(v) == <<v>>
IsSome(o) == o # <<>>
Unwrap(o) == o[1]

\* The bytes API keys are made of: NUL (the padding byte of ApiKey::eq) and 'a'.
KeyBytes == {0, 97}
\* All sequences over S of length 0..n.
SeqsUpTo(S, n) == UNION {[1..k -> S] : k \in 0..n}
ApiKeys == SeqsUpTo(KeyBytes, MaxKeyLen)

ClientIds == {"c1", "c2", "c3"}
ClientIdAt(i) == CASE i = 1 -> "c1" [] i = 2 -> "c2" [] OTHER -> "c3"
Models == {"m1", "m2"}
BackendIdAt(i) == CASE i = 1 -> "b1" [] i = 2 -> "b2" [] i = 3 -> "b3" [] OTHER -> "b4"
Statuses == {"Healthy", "Degraded", "Unhealthy", "Unknown"}
Strategies == {"LeastLoaded", "RoundRobin"}
\* YearMonth values: two consecutive billing periods.
Periods == {[year |-> 2025, month |-> 6], [year |-> 2025, month |-> 7]}

(***************************************************************************)
(* Helpers of the Rust standard library.                                   *)
(***************************************************************************)
\* u64::saturating_sub
SaturatingSub(a, b) == IF a >= b THEN a - b ELSE 0

(***************************************************************************)
(* RateLimiter (mb-core/src/core_domain/quota.rs)                          *)
(***************************************************************************)
\* RateLimiter::new
RateLimiterNew(window_ms, limit) ==
    [window_ms |-> window_ms, limit |-> limit, timestamps |-> <<>>]

\* A plausible slip: a timestamp exactly at window_start is dropped as well.
RECURSIVE PruneFrontInclusive(_, _)
PruneFrontInclusive(timestamps, window_start) ==
    IF timestamps # <<>> /\ Head(timestamps) <= window_start
    THEN PruneFrontInclusive(Tail(timestamps), window_start)
    ELSE timestamps

\* The `while let Some(&front)` loop of check: pops the front while it is
\* older than window_start, and stops at the first timestamp that is not.
RECURSIVE PruneFront(_, _)
PruneFront(timestamps, window_start) ==
    IF timestamps # <<>> /\ Head(timestamps) < window_start
    THEN PruneFront(Tail(timestamps), window_start)
    ELSE timestamps

\* RateLimiter::check(now_ms): the limiter afterwards and the result.
RateLimiterCheck(l, now_ms) ==
    LET window_start == SaturatingSub(now_ms, l.window_ms)
        pruned == PruneFront(l.timestamps, window_start)
        earliest == IF pruned # <<>> THEN Head(pruned) ELSE now_ms
    IN  IF Len(pruned) >= l.limit
        THEN [limiter |-> [l EXCEPT !.timestamps = pruned],
              ok |-> FALSE,
              retry_after_ms |-> SaturatingSub(earliest + l.window_ms, now_ms)]
        ELSE [limiter |-> [l EXCEPT !.timestamps = Append(pruned, now_ms)],
              ok |-> TRUE,
              retry_after_ms |-> 0]

(***************************************************************************)
(* ApiKey and AuthService (mb-core/src/core_domain/types.rs, auth.rs)      *)
(***************************************************************************)
Max(a, b) == IF a >= b THEN a ELSE b

\* u8 ^ u8 and u8 | u8, bit by bit.
RECURSIVE BitXor(_, _)
BitXor(x, y) ==
    IF x = 0 /\ y = 0 THEN 0
    ELSE (((x % 2) + (y % 2)) % 2) + 2 * BitXor(x \div 2, y \div 2)

RECURSIVE BitOr(_, _)
BitOr(x, y) ==
    IF x = 0 /\ y = 0 THEN 0
    ELSE (IF x % 2 = 1 \/ y % 2 = 1 THEN 1 ELSE 0) + 2 * BitOr(x \div 2, y \div 2)

\* The loop of ApiKey::eq from index i on (1-based), `result` accumulated so far.
RECURSIVE ApiKeyEqLoop(_, _, _, _)
ApiKeyEqLoop(a, b, i, result) ==
    IF i > Max(Len(a), Len(b)) THEN result
    ELSE LET x == IF i <= Len(a) THEN a[i] ELSE 0
             y == IF i <= Len(b) THEN b[i] ELSE 0
         IN  ApiKeyEqLoop(a, b, i + 1, BitOr(result, BitXor(x, y)))

\* A plausible slip: the length difference is not folded into the result, so
\* a key equals its zero-padded extensions.
ApiKeyEqPaddedOnly(a, b) == ApiKeyEqLoop(a, b, 1, 0) = 0

\* impl PartialEq for ApiKey
ApiKeyEq(a, b) ==
    ApiKeyEqLoop(a, b, 1, IF Len(a) # Len(b) THEN 1 ELSE 0) = 0

\* The loop of AuthService::validate from entry i on: `matched` is the index
\* of the latest matching entry (0: none), `compared` counts the comparisons.
RECURSIVE ValidateLoop(_, _, _, _, _)
ValidateLoop(cl, key, i, matched, compared) ==
    IF i > Len(cl) THEN [matched |-> matched, compared |-> compared]
    ELSE ValidateLoop(cl, key, i + 1,
                      IF ApiKeyEq(cl[i].key, key) THEN i ELSE matched,
                      compared + 1)

\* AuthService::validate: Ok(&ClientInfo) or Err(InvalidApiKey).
Validate(cl, key) ==
    LET r == ValidateLoop(cl, key, 1, 0, 0)
    IN  IF r.matched = 0
        THEN [ok |-> FALSE, err |-> "InvalidApiKey", info |-> None,
              compared |-> r.compared]
        ELSE [ok |-> TRUE, err |-> "", info |-> Some(cl[r.matched].info),
              compared |-> r.compared]

\* AuthService::check_model_permission; allowed_models is "All" or a
\* sequence of model ids (Specific).
CheckModelPermission(client, model) ==
    IF client.allowed_models = "All" THEN TRUE
    ELSE \E i \in DOMAIN client.allowed_models : client.allowed_models[i] = model

\* The ClientInfo of the i-th configured client; ids are unique (bootstrap).
AuthClientInfo(i) ==
    [id |-> ClientIdAt(i), allowed_models |-> "All", requests_per_minute |-> 1,
     monthly_token_limit |-> None]

(***************************************************************************)
(* QuotaTracker (mb-core/src/core_domain/quota.rs)                         *)
(***************************************************************************)
\* A plausible slip: the stored counter is used whatever period it belongs to.
QuotaCheckAnyPeriod(u, client, estimated_tokens, monthly_token_limit, current_period) ==
    IF ~IsSome(monthly_token_limit) THEN [ok |-> TRUE, limit |-> 0, used |-> 0]
    ELSE LET limit == Unwrap(monthly_token_limit)
             used == IF client \in DOMAIN u THEN u[client].tokens_used ELSE 0
         IN  IF used + estimated_tokens > limit
             THEN [ok |-> FALSE, limit |-> limit, used |-> used]
             ELSE [ok |-> TRUE, limit |-> 0, used |-> 0]

\* QuotaTracker::check: config is the client's monthly_token_limit option.
QuotaCheck(u, client, estimated_tokens, monthly_token_limit, current_period) ==
    IF ~IsSome(monthly_token_limit) THEN [ok |-> TRUE, limit |-> 0, used |-> 0]
    ELSE LET limit == Unwrap(monthly_token_limit)
             used == IF client \in DOMAIN u /\ u[client].period = current_period
                     THEN u[client].tokens_used ELSE 0
         IN  IF used + estimated_tokens > limit
             THEN [ok |-> FALSE, limit |-> limit, used |-> used]
             ELSE [ok |-> TRUE, limit |-> 0, used |-> 0]

\* A plausible slip: the counter is carried over into the new period.
QuotaRecordNoReset(u, client, actual_tokens, current_period) ==
    LET entry == IF client \in DOMAIN u THEN u[client]
                 ELSE [period |-> current_period, tokens_used |-> 0]
    IN  [c \in DOMAIN u \cup {client} |->
            IF c = client
            THEN [period |-> current_period,
                  tokens_used |-> entry.tokens_used + actual_tokens]
            ELSE u[c]]

\* QuotaTracker::record
QuotaRecord(u, client, actual_tokens, current_period) ==
    LET entry == IF client \in DOMAIN u THEN u[client]
                 ELSE [period |-> current_period, tokens_used |-> 0]
        reset == IF entry.period # current_period
                 THEN [period |-> current_period, tokens_used |-> 0]
                 ELSE entry
    IN  [c \in DOMAIN u \cup {client} |->
            IF c = client
            THEN [reset EXCEPT !.tokens_used = reset.tokens_used + actual_tokens]
            ELSE u[c]]

\* QuotaTracker::new: no entries.
QuotaTrackerNew == [c \in {} |-> [period |-> 0, tokens_used |-> 0]]

QuotaClients == {"c1", "c2"}
TokenLimits == {None} \cup {Some(l) : l \in 0..MaxTokens}

(***************************************************************************)
(* BackendState (mb-core/src/core_domain/health.rs)                        *)
(***************************************************************************)
\* BackendState::new
BackendStateNew(id, models, max_concurrent) ==
    [id |-> id, models |-> models, status |-> "Unknown", active_requests |-> 0,
     max_concurrent |-> max_concurrent, last_latency |-> None,
     consecutive_failures |-> 0]

\* BackendState::is_healthy
IsHealthy(b) == b.status \in {"Healthy", "Degraded"}

\* A plausible slip: a backend at its limit still counts as having capacity.
HasCapacityInclusive(b) == b.active_requests <= b.max_concurrent

\* BackendState::has_capacity
HasCapacity(b) == b.active_requests < b.max_concurrent

\* BackendState::serves_model
ServesModel(b, model) == \E i \in DOMAIN b.models : b.models[i] = model

(***************************************************************************)
(* select_backend (mb-core/src/core_domain/router.rs)                      *)
(***************************************************************************)
\* A plausible slip: among equally loaded candidates the last one wins.
RECURSIVE MinByActiveLast(_, _, _)
MinByActiveLast(candidates, i, best) ==
    IF i > Len(candidates) THEN best
    ELSE MinByActiveLast(candidates, i + 1,
                         IF candidates[i].active_requests <= candidates[best].active_requests
                         THEN i ELSE best)

\* Iterator::min_by_key over active_requests from index i on: the index of
\* the first minimum (`best` so far).
RECURSIVE MinByActive(_, _, _)
MinByActive(candidates, i, best) ==
    IF i > Len(candidates) THEN best
    ELSE MinByActive(candidates, i + 1,
                     IF candidates[i].active_requests < candidates[best].active_requests
                     THEN i ELSE best)

\* apply_strategy: candidates is not empty.
ApplyStrategy(candidates, strategy, round) ==
    IF strategy = "LeastLoaded"
    THEN candidates[MinByActive(candidates, 1, 1)]
    ELSE candidates[(round % Len(candidates)) + 1]

\* Step 1 of select_backend: the backends that serve the model.
Serving(backends, model) == SelectSeq(backends, LAMBDA b : ServesModel(b, model))

\* A plausible slip: the status filter of step 2 lets Unknown backends through.
HealthyOfLax(serving) == SelectSeq(serving, LAMBDA b : b.status # "Unhealthy")

\* Step 2 of select_backend: the serving backends that are healthy.
HealthyOf(serving) == SelectSeq(serving, IsHealthy)

\* A plausible slip: the hint is honored whenever the hinted backend is
\* healthy, whatever its load.
HintHonoredIgnoringCapacity(healthy, affinity_hint) ==
    IF ~IsSome(affinity_hint) THEN None
    ELSE LET found == SelectSeq(healthy, LAMBDA b : b.id = Unwrap(affinity_hint))
         IN  IF found # <<>> THEN Some(Head(found).id) ELSE None

\* Step 3 of select_backend: Some(id) when the hint is honored.
HintHonored(healthy, affinity_hint) ==
    IF ~IsSome(affinity_hint) THEN None
    ELSE LET found == SelectSeq(healthy, LAMBDA b : b.id = Unwrap(affinity_hint))
         IN  IF found # <<>> /\ HasCapacity(Head(found))
             THEN Some(Head(found).id) ELSE None

\* select_backend: Ok(BackendId) or Err(RoutingError).
SelectBackend(backends, model, strategy, round, affinity_hint) ==
    LET serving == Serving(backends, model)
        healthy == HealthyOf(serving)
        hinted == HintHonored(healthy, affinity_hint)
        with_capacity == SelectSeq(healthy, HasCapacity)
        candidates == IF with_capacity = <<>> THEN healthy ELSE with_capacity
    IN  IF serving = <<>> THEN [ok |-> FALSE, err |-> "ModelNotFound", id |-> ""]
        ELSE IF healthy = <<>> THEN [ok |-> FALSE, err |-> "NoHealthyBackend", id |-> ""]
        ELSE IF IsSome(hinted) THEN [ok |-> TRUE, err |-> "", id |-> Unwrap(hinted)]
        ELSE [ok |-> TRUE, err |-> "",
              id |-> ApplyStrategy(candidates, strategy, round).id]

(***************************************************************************)
(* CacheAffinityMap (mb-core/src/core_domain/cache_router.rs)              *)
(***************************************************************************)
\* HashMap::new(): no entries.
NoEntries == [k \in {} |-> [backend |-> "", last_used |-> 0, hit_count |-> 0]]

\* CacheAffinityMap::new
CacheAffinityMapNew(max_entries) ==
    [entries |-> NoEntries, max_entries |-> max_entries, counter |-> 0]

\* A plausible slip: a hit is answered without refreshing last_used, which
\* turns the map into first-in-first-out.
AffinityGetNoTouch(m, model, prefix) ==
    LET key == <<model, prefix>>
    IN  IF key \in DOMAIN m.entries
        THEN [map |-> [m EXCEPT !.counter = m.counter + 1],
              result |-> Some(m.entries[key].backend)]
        ELSE [map |-> m, result |-> None]

\* CacheAffinityMap::get: the map afterwards and Option<&BackendId>.
AffinityGet(m, model, prefix) ==
    LET key == <<model, prefix>>
    IN  IF key \in DOMAIN m.entries
        THEN LET counter == m.counter + 1
                 entry == [m.entries[key] EXCEPT
                             !.last_used = counter,
                             !.hit_count = m.entries[key].hit_count + 1]
             IN  [map |-> [m EXCEPT !.counter = counter, !.entries[key] = entry],
                  result |-> Some(entry.backend)]
        ELSE [map |-> m, result |-> None]

\* A plausible slip: the overflow check is dropped and nothing is evicted.
EvictLruNever(entries) == entries

\* CacheAffinityMap::evict_lru: removes the entry with the smallest last_used
\* (last_used values are distinct: each is a value of the counter, which
\* grows with every assignment).
EvictLru(entries) ==
    IF DOMAIN entries = {} THEN entries
    ELSE LET oldest_key ==
                 CHOOSE k \in DOMAIN entries :
                    \A o \in DOMAIN entries : entries[k].last_used <= entries[o].last_used
         IN  [k \in DOMAIN entries \ {oldest_key} |-> entries[k]]

\* A plausible slip: recording a key that is present refreshes the entry but
\* keeps its backend.
AffinityRecordKeeping(m, model, prefix, backend) ==
    LET counter == m.counter + 1
        key == <<model, prefix>>
        entry == IF key \in DOMAIN m.entries
                 THEN [backend |-> m.entries[key].backend, last_used |-> counter,
                       hit_count |-> m.entries[key].hit_count + 1]
                 ELSE [backend |-> backend, last_used |-> counter, hit_count |-> 1]
        inserted == [k \in DOMAIN m.entries \cup {key} |->
                        IF k = key THEN entry ELSE m.entries[k]]
    IN  [m EXCEPT !.counter = counter,
                  !.entries = IF Cardinality(DOMAIN inserted) > m.max_entries
                              THEN EvictLru(inserted) ELSE inserted]

\* CacheAffinityMap::record
AffinityRecord(m, model, prefix, backend) ==
    LET counter == m.counter + 1
        key == <<model, prefix>>
        entry == IF key \in DOMAIN m.entries
                 THEN [backend |-> backend, last_used |-> counter,
                       hit_count |-> m.entries[key].hit_count + 1]
                 ELSE [backend |-> backend, last_used |-> counter, hit_count |-> 1]
        inserted == [k \in DOMAIN m.entries \cup {key} |->
                        IF k = key THEN entry ELSE m.entries[k]]
    IN  [m EXCEPT !.counter = counter,
                  !.entries = IF Cardinality(DOMAIN inserted) > m.max_entries
                              THEN EvictLru(inserted) ELSE inserted]

\* CacheAffinityMap::evict_backend
AffinityEvictBackend(m, backend) ==
    [m EXCEPT !.entries =
        [k \in {x \in DOMAIN m.entries : m.entries[x].backend # backend} |->
            m.entries[k]]]

(***************************************************************************)
(* BackendState transitions (mb-core/src/core_domain/health.rs) and the    *)
(* probe loop of HealthCheckManager (mb-server/src/health.rs)              *)
(***************************************************************************)
\* BackendState::with_healthy
WithHealthy(state, latency) ==
    [state EXCEPT !.status = "Healthy", !.last_latency = Some(latency),
                  !.consecutive_failures = 0]

\* A plausible slip: with_degraded resets the failure count as with_healthy does.
WithDegradedResetting(state, latency) ==
    [state EXCEPT !.status = "Degraded", !.last_latency = Some(latency),
                  !.consecutive_failures = 0]

\* BackendState::with_degraded
WithDegraded(state, latency) ==
    [state EXCEPT !.status = "Degraded", !.last_latency = Some(latency)]

\* BackendState::with_unhealthy
WithUnhealthy(state) == [state EXCEPT !.status = "Unhealthy"]

\* BackendState::with_failure. The count saturates at u32::MAX, far beyond
\* the counts explored here.
WithFailure(state) ==
    [state EXCEPT !.consecutive_failures = state.consecutive_failures + 1]

\* BackendState::with_request_completed (u32::saturating_sub stops at 0)
WithRequestCompleted(state) ==
    [state EXCEPT !.active_requests =
        IF state.active_requests = 0 THEN 0 ELSE state.active_requests - 1]

\* A probe result: Ok(LatencyMs) or Err(HealthError).
ProbeOk(latency) == [ok |-> TRUE, latency |-> latency]
ProbeErr == [ok |-> FALSE, latency |-> 0]

\* A plausible slip: the failure count must exceed the threshold, not reach it.
ProbeUpdateStrict(state, result, unhealthy_threshold, degraded_latency_ms) ==
    IF result.ok
    THEN IF result.latency >= degraded_latency_ms
         THEN WithDegraded(state, result.latency)
         ELSE WithHealthy(state, result.latency)
    ELSE LET failed == WithFailure(state)
         IN  IF failed.consecutive_failures > unhealthy_threshold
             THEN WithUnhealthy(failed)
             ELSE failed

\* The `match result` of the probe loop: the updated state of the backend.
ProbeUpdate(state, result, unhealthy_threshold, degraded_latency_ms) ==
    IF result.ok
    THEN IF result.latency >= degraded_latency_ms
         THEN WithDegraded(state, result.latency)
         ELSE WithHealthy(state, result.latency)
    ELSE LET failed == WithFailure(state)
         IN  IF failed.consecutive_failures >= unhealthy_threshold
             THEN WithUnhealthy(failed)
             ELSE failed

\* The configured backends (Vec<BackendInfo>), in configuration order.
Backends ==
    << [id |-> "b1", models |-> <<"m1">>, max_concurrent |-> 1],
       [id |-> "b2", models |-> <<"m1", "m2">>, max_concurrent |-> 1] >>
BackendIds == {Backends[i].id : i \in DOMAIN Backends}

\* HealthCheckManager::new: every configured backend, in state Unknown.
HealthCheckManagerNew ==
    [id \in BackendIds |->
        LET b == CHOOSE x \in {Backends[i] : i \in DOMAIN Backends} : x.id = id
        IN  BackendStateNew(b.id, b.models, b.max_concurrent)]

(***************************************************************************)
(* The request pipeline (mb-server/src/handler.rs) and the OpenAI inbound  *)
(* adapter (mb-server/src/inbound/openai_chat.rs, openai_wire.rs)          *)
(***************************************************************************)
\* The bytes of "Bearer ".
BearerPrefix == <<66, 101, 97, 114, 101, 114, 32>>

\* HeaderValue::to_str: the text, when every byte is visible ASCII or a tab.
ToStr(value) ==
    IF \A i \in DOMAIN value : value[i] = 9 \/ (value[i] >= 32 /\ value[i] < 127)
    THEN Some(value) ELSE None

\* str::strip_prefix
StripPrefix(s, prefix) ==
    IF Len(s) >= Len(prefix) /\ SubSeq(s, 1, Len(prefix)) = prefix
    THEN Some(SubSeq(s, Len(prefix) + 1, Len(s))) ELSE None

\* extract_api_key: `authorization` is headers.get("authorization"), an
\* optional byte string.
ExtractApiKey(authorization) ==
    LET auth_header == IF IsSome(authorization) THEN ToStr(Unwrap(authorization))
                       ELSE None
        token == IF IsSome(auth_header)
                 THEN StripPrefix(Unwrap(auth_header), BearerPrefix) ELSE None
    IN  IF IsSome(token) THEN [ok |-> TRUE, key |-> Unwrap(token)]
        ELSE [ok |-> FALSE, key |-> <<>>]

\* parse_role
KnownRoles == {"system", "user", "assistant", "tool"}

\* estimate_tokens: the characters of all messages, divided by four. A
\* message is [role, content]; a content is represented by its length.
RECURSIVE TotalChars(_)
TotalChars(messages) ==
    IF messages = <<>> THEN 0
    ELSE Head(messages).content + TotalChars(Tail(messages))

EstimateTokens(messages) == TotalChars(messages) \div 4

\* OpenAiChatInboundAdapter::parse_request. A body is [json, model,
\* messages]: `json` tells whether serde accepts the bytes as an OaiRequest.
ParseRequest(body) ==
    IF ~body.json THEN [ok |-> FALSE, req |-> None]
    ELSE IF \E i \in DOMAIN body.messages : body.messages[i].role \notin KnownRoles
    THEN [ok |-> FALSE, req |-> None]
    ELSE [ok |-> TRUE,
          req |-> Some([model |-> body.model, messages |-> body.messages,
                        client_id |-> "unknown",
                        estimated_input_tokens |-> EstimateTokens(body.messages),
                        prefix_hash |-> None])]

\* compute_prefix_hash: the hash of the contents of the first prefix_depth
\* system and user messages, represented by the sequence of those contents.
RECURSIVE PrefixContents(_, _)
PrefixContents(messages, prefix_depth) ==
    IF messages = <<>> \/ prefix_depth = 0 THEN <<>>
    ELSE IF Head(messages).role \in {"system", "user"}
    THEN <<Head(messages).content>> \o PrefixContents(Tail(messages), prefix_depth - 1)
    ELSE PrefixContents(Tail(messages), prefix_depth)

ComputePrefixHash(messages, prefix_depth) == PrefixContents(messages, prefix_depth)

\* The result of the steps of a request that need no lock.
Admitted(steps, client, req) ==
    [err |-> "", steps |-> steps, client |-> Some(client), req |-> Some(req)]
Refused(err, steps) ==
    [err |-> err, steps |-> steps, client |-> None, req |-> None]

\* A plausible slip: the key is validated before the body is parsed.
Steps1To4ValidateFirst(cl, authorization, body) ==
    LET k == ExtractApiKey(authorization)
        v == Validate(cl, k.key)
        p == ParseRequest(body)
    IN  IF ~k.ok THEN Refused("InvalidApiKey", <<"extract_api_key">>)
        ELSE IF ~v.ok
        THEN Refused("InvalidApiKey", <<"extract_api_key", "validate">>)
        ELSE IF ~p.ok
        THEN Refused("ParseRequest", <<"extract_api_key", "validate", "parse_request">>)
        ELSE IF ~CheckModelPermission(Unwrap(v.info), Unwrap(p.req).model)
        THEN Refused("ModelNotPermitted",
                     <<"extract_api_key", "validate", "parse_request",
                       "check_model_permission">>)
        ELSE Admitted(<<"extract_api_key", "validate", "parse_request",
                        "check_model_permission">>,
                      Unwrap(v.info),
                      [Unwrap(p.req) EXCEPT !.client_id = Unwrap(v.info).id])

\* Steps 1 to 4 of handle_completion_inner, which run without awaiting:
\* extract_api_key, parse_request, validate, check_model_permission.
Steps1To4(cl, authorization, body) ==
    LET k == ExtractApiKey(authorization)
        p == ParseRequest(body)
        v == Validate(cl, k.key)
    IN  IF ~k.ok THEN Refused("InvalidApiKey", <<"extract_api_key">>)
        ELSE IF ~p.ok
        THEN Refused("ParseRequest", <<"extract_api_key", "parse_request">>)
        ELSE IF ~v.ok
        THEN Refused("InvalidApiKey", <<"extract_api_key", "parse_request", "validate">>)
        ELSE IF ~CheckModelPermission(Unwrap(v.info), Unwrap(p.req).model)
        THEN Refused("ModelNotPermitted",
                     <<"extract_api_key", "parse_request", "validate",
                       "check_model_permission">>)
        ELSE Admitted(<<"extract_api_key", "parse_request", "validate",
                        "check_model_permission">>,
                      Unwrap(v.info),
                      [Unwrap(p.req) EXCEPT !.client_id = Unwrap(v.info).id])

\* The window of every per-client limiter and the limit of a client that
\* has no entry in rate_limit_rpm.
RateWindowMs == 60000
DefaultRpm == 60

\* Step 5: `limiters.entry(id).or_insert_with(..)` followed by check(now_ms).
\* rate_limit_rpm holds the requests_per_minute of every configured client.
RateLimitStep(limiters, rate_limit_rpm, client_id, now_ms) ==
    LET entry == IF client_id \in DOMAIN limiters THEN limiters[client_id]
                   ELSE RateLimiterNew(RateWindowMs,
                                       IF client_id \in DOMAIN rate_limit_rpm
                                       THEN rate_limit_rpm[client_id]
                                       ELSE DefaultRpm)
        r == RateLimiterCheck(entry, now_ms)
    IN  [limiters |-> [c \in DOMAIN limiters \cup {client_id} |->
                          IF c = client_id THEN r.limiter ELSE limiters[c]],
         ok |-> r.ok, retry_after_ms |-> r.retry_after_ms]

\* into_runtime: client_rate_limits, one entry per configured client.
ClientRateLimits(cl) ==
    [id \in {cl[i].info.id : i \in DOMAIN cl} |->
        cl[CHOOSE i \in DOMAIN cl : cl[i].info.id = id].info.requests_per_minute]

(***************************************************************************)
(* Idle values: a component's variables in the specifications of the       *)
(* other components.                                                       *)
(***************************************************************************)
NoRLCall == [called |-> FALSE, now_ms |-> 0, before |-> <<>>, ok |-> TRUE,
             retry_after_ms |-> 0]

IdleRL ==
    /\ limiter = RateLimiterNew(1, 0)
    /\ rlNow = 0
    /\ rlLast = NoRLCall

NoAuthCall == [called |-> FALSE, key |-> <<>>, result |-> Validate(<<>>, <<>>)]

IdleAuth ==
    /\ clients = <<>>
    /\ authLast = NoAuthCall

NoQuotaCall == [op |-> "none", client |-> "", tokens |-> 0, limit |-> None,
                period |-> 0, before |-> QuotaTrackerNew,
                result |-> [ok |-> TRUE, limit |-> 0, used |-> 0]]

IdleQuota ==
    /\ usage = QuotaTrackerNew
    /\ quotaLast = NoQuotaCall

NoRouteCall == [called |-> FALSE, model |-> "", strategy |-> "", round |-> 0,
                hint |-> None, result |-> [ok |-> FALSE, err |-> "", id |-> ""]]

IdleRouter ==
    /\ snapshot = <<>>
    /\ routeLast = NoRouteCall

NoAffCall == [op |-> "none", key |-> <<>>, backend |-> "", before |-> NoEntries,
              result |-> None]

IdleAff ==
    /\ affinity = CacheAffinityMapNew(0)
    /\ affLast = NoAffCall

NoProbeApplied == [called |-> FALSE, backend |-> "", result |-> ProbeErr,
                   before |-> BackendStateNew("", <<>>, 0)]

\* The probe loop before its first probe returns.
ProbeLoopStart == [index |-> 1, result |-> None]

IdleHealth ==
    /\ backend_states = HealthCheckManagerNew
    /\ healthCfg = [unhealthy_threshold |-> 0, degraded_latency_ms |-> 0]
    /\ probe = ProbeLoopStart
    /\ healthLast = NoProbeApplied

\* A request slot no request has arrived in.
NoBody == [json |-> FALSE, model |-> "", messages |-> <<>>]
NoRequest ==
    [pc |-> "idle", authorization |-> None, body |-> NoBody, steps |-> <<>>,
     client |-> None, req |-> None, now_ms |-> 0, hint |-> None,
     backend |-> None, total_tokens |-> 0, result |-> ""]

NoStep == [req |-> 0, step |-> "none", ok |-> TRUE, read |-> <<>>,
           after |-> NoRequest, usage |-> QuotaTrackerNew, entries |-> NoEntries]

IdlePipe ==
    /\ appCfg = [strategy |-> "LeastLoaded",
                 cache |-> [enabled |-> FALSE, prefix_depth |-> 0, max_entries |-> 0]]
    /\ rate_limiters = [c \in {} |-> RateLimiterNew(RateWindowMs, DefaultRpm)]
    /\ round_counter = 0
    /\ wall = [tick |-> 0, period |-> [year |-> 2025, month |-> 6]]
    /\ reqs = [i \in 1..MaxRequests |-> NoRequest]
    /\ pipeLast = NoStep

\* A request that has not reached the rate-limit step.
GateStart == [pc |-> "start", handler |-> "", now_ms |-> 0, ok |-> FALSE]

IdleGate ==
    /\ gateClock = 0
    /\ gateLimiters = [c \in {} |-> RateLimiterNew(RateWindowMs, DefaultRpm)]
    /\ gateReqs = [i \in 1..MaxGateRequests |-> GateStart]

\* No streamed response.
IdleStream ==
    /\ upstream = [received |-> <<>>, end |-> "open"]
    /\ sseBuffer = <<>>
    /\ stream = [pc |-> "closed", finished |-> FALSE, cache_enabled |-> FALSE,
                 prefix_hash |-> None]
    /\ yielded = <<>>
    /\ events = <<>>

\* An empty feedback store and no export.
EmptyStore == [conversations |-> <<>>, turns |-> <<>>, annotations |-> <<>>,
               cla_records |-> {}]
NoFilter == [annotator_id |-> None, model_id |-> None, verdict |-> None,
             since |-> None, until |-> None]
NoExport == [called |-> FALSE, filter |-> NoFilter, pairs |-> <<>>]

IdleExport ==
    /\ fbStore = EmptyStore
    /\ exportLast = NoExport

\* No feedback state and no feedback request.
NoFeedbackHeaders == [x_api_key |-> None, authorization |-> None]
\* (`before` and `after` are the store before and after the request.)
NoFeedback == [called |-> FALSE, headers |-> NoFeedbackHeaders,
               body |-> [json |-> "", turn_id |-> 0, verdict |-> "",
                         expected_response |-> None],
               status |-> 0, type |-> "", before |-> EmptyStore,
               after |-> EmptyStore]

IdleFeedback ==
    /\ feedback = None
    /\ feedbackLast = NoFeedback

\* A GatewayError: the variant and the variant of the error it wraps, with
\* the data they carry (model, client or backend id; retry_after_ms,
\* `used`, HTTP status or timeout_ms in n; `limit` in m; the text in msg).
GatewayErr(variant, inner, model, id, n, m, msg) ==
    [variant |-> variant, inner |-> inner, model |-> model, id |-> id,
     n |-> n, m |-> m, msg |-> msg]

\* No error answered.
NoErrorResponse ==
    [called |-> FALSE, err |-> GatewayErr("", "", "", "", 0, 0, 0),
     response |-> [status |-> 0,
                   body |-> [error |-> [type |-> "", code |-> 0]]]]

IdleErrors == errLast = NoErrorResponse

\* The components of the later specifications: idle values and frames.
IdleRR == rr = [order |-> <<>>, round_counter |-> 0, reqs |-> <<>>]
IdleDispatch == dispatch = [router |-> "", served |-> [buffered |-> 0, streaming |-> 0], body |-> [json |-> FALSE, stream |-> "absent"], handlers |-> <<>>]
IdleMy == myLast = [called |-> FALSE, headers |-> NoFeedbackHeaders, query |-> [rejected |-> FALSE, format |-> None, page |-> None, per_page |-> None], store |-> EmptyStore, response |-> [status |-> 0, kind |-> "", items |-> <<>>, page |-> 0, per_page |-> 0, total |-> 0]]
IdleSse == sse = [chunks |-> <<>>, buffer |-> <<>>, lines |-> <<>>, done |-> FALSE]
IdleDb == feedbackDb = [db |-> EmptyStore, last |-> [op |-> "", conversation_id |-> "", turn_id |-> 0, ok |-> TRUE, before |-> EmptyStore]]
IdleBilling == billing = [tracker |-> QuotaTrackerNew, called |-> FALSE, ok |-> FALSE, dialect |-> "", wire |-> [prompt |-> None, completion |-> None, total |-> None], usage |-> [prompt_tokens |-> 0, completion_tokens |-> 0, total_tokens |-> 0], used_before |-> 0]
IdlePrefix == prefixPair = [a |-> <<>>, b |-> <<>>, depth |-> 0, hashed |-> FALSE, hash_a |-> <<>>, hash_b |-> <<>>]
IdleShared == shared_states = [map |-> HealthCheckManagerNew, lock |-> [writer |-> FALSE, readers |-> 0], unhealthy_threshold |-> 1, loop |-> [pc |-> "probe", index |-> 1, result |-> ProbeErr, state |-> None], readers |-> [who \in {"router", "health"} |-> [pc |-> "idle", seen |-> None]]]
IdleLoad == load = [states |-> HealthCheckManagerNew, last |-> [called |-> FALSE, model |-> "", hint |-> None, snapshot |-> <<>>, result |-> [ok |-> FALSE, err |-> "", id |-> ""]]]
IdleChats == chats = [store |-> EmptyStore, calls |-> <<>>]
IdleMonth == month_clock = [time |-> [days |-> 0, secs |-> 0], period |-> [year |-> 1970, month |-> 1], earlier |-> [year |-> 1970, month |-> 1], readings |-> 0]
IdleSticky == sticky = [states |-> HealthCheckManagerNew, strategy |-> "LeastLoaded", affinity |-> CacheAffinityMapNew(0), round_counter |-> 0, succeeded |-> <<>>, pending |-> <<>>, last |-> [called |-> FALSE]]

IdleLater == IdleRR /\ IdleDispatch /\ IdleMy /\ IdleSse /\ IdleDb /\ IdleBilling /\ IdlePrefix /\ IdleShared /\ IdleLoad /\ IdleChats /\ IdleMonth /\ IdleSticky

\* The variables and the idle predicate of the specifications above.
varsEarlier == <<varsRL, varsAuth, varsQuota, varsRouter, varsAff, varsHealth, varsPipe,
                 varsGate, varsStream, varsExport, varsFeedback>>
IdleEarlier ==
    /\ IdleRL /\ IdleAuth /\ IdleQuota /\ IdleRouter /\ IdleAff /\ IdleHealth
    /\ IdlePipe /\ IdleGate /\ IdleStream /\ IdleExport /\ IdleFeedback /\ IdleErrors

\* errLast and the later variables but one, and the idle predicate of the latter.
laterRR == <<errLast, dispatch, myLast, sse, feedbackDb, billing, prefixPair, shared_states, load, chats, month_clock, sticky>>
IdleLaterRR == IdleDispatch /\ IdleMy /\ IdleSse /\ IdleDb /\ IdleBilling /\ IdlePrefix /\ IdleShared /\ IdleLoad /\ IdleChats /\ IdleMonth /\ IdleSticky
laterDispatch == <<errLast, rr, myLast, sse, feedbackDb, billing, prefixPair, shared_states, load, chats, month_clock, sticky>>
IdleLaterDispatch == IdleRR /\ IdleMy /\ IdleSse /\ IdleDb /\ IdleBilling /\ IdlePrefix /\ IdleShared /\ IdleLoad /\ IdleChats /\ IdleMonth /\ IdleSticky
laterMy == <<errLast, rr, dispatch, sse, feedbackDb, billing, prefixPair, shared_states, load, chats, month_clock, sticky>>
IdleLaterMy == IdleRR /\ IdleDispatch /\ IdleSse /\ IdleDb /\ IdleBilling /\ IdlePrefix /\ IdleShared /\ IdleLoad /\ IdleChats /\ IdleMonth /\ IdleSticky
laterSse == <<errLast, rr, dispatch, myLast, feedbackDb, billing, prefixPair, shared_states, load, chats, month_clock, sticky>>
IdleLaterSse == IdleRR /\ IdleDispatch /\ IdleMy /\ IdleDb /\ IdleBilling /\ IdlePrefix /\ IdleShared /\ IdleLoad /\ IdleChats /\ IdleMonth /\ IdleSticky
laterDb == <<errLast, rr, dispatch, myLast, sse, billing, prefixPair, shared_states, load, chats, month_clock, sticky>>
IdleLaterDb == IdleRR /\ IdleDispatch /\ IdleMy /\ IdleSse /\ IdleBilling /\ IdlePrefix /\ IdleShared /\ IdleLoad /\ IdleChats /\ IdleMonth /\ IdleSticky
laterBilling == <<errLast, rr, dispatch, myLast, sse, feedbackDb, prefixPair, shared_states, load, chats, month_clock, sticky>>
IdleLaterBilling == IdleRR /\ IdleDispatch /\ IdleMy /\ IdleSse /\ IdleDb /\ IdlePrefix /\ IdleShared /\ IdleLoad /\ IdleChats /\ IdleMonth /\ IdleSticky
laterPrefix == <<errLast, rr, dispatch, myLast, sse, feedbackDb, billing, shared_states, load, chats, month_clock, sticky>>
IdleLaterPrefix == IdleRR /\ IdleDispatch /\ IdleMy /\ IdleSse /\ IdleDb /\ IdleBilling /\ IdleShared /\ IdleLoad /\ IdleChats /\ IdleMonth /\ IdleSticky
laterShared == <<errLast, rr, dispatch, myLast, sse, feedbackDb, billing, prefixPair, load, chats, month_clock, sticky>>
IdleLaterShared == IdleRR /\ IdleDispatch /\ IdleMy /\ IdleSse /\ IdleDb /\ IdleBilling /\ IdlePrefix /\ IdleLoad /\ IdleChats /\ IdleMonth /\ IdleSticky
laterLoad == <<errLast, rr, dispatch, myLast, sse, feedbackDb, billing, prefixPair, shared_states, chats, month_clock, sticky>>
IdleLaterLoad == IdleRR /\ IdleDispatch /\ IdleMy /\ IdleSse /\ IdleDb /\ IdleBilling /\ IdlePrefix /\ IdleShared /\ IdleChats /\ IdleMonth /\ IdleSticky
laterChats == <<errLast, rr, dispatch, myLast, sse, feedbackDb, billing, prefixPair, shared_states, load, month_clock, sticky>>
IdleLaterChats == IdleRR /\ IdleDispatch /\ IdleMy /\ IdleSse /\ IdleDb /\ IdleBilling /\ IdlePrefix /\ IdleShared /\ IdleLoad /\ IdleMonth /\ IdleSticky
laterMonth == <<errLast, rr, dispatch, myLast, sse, feedbackDb, billing, prefixPair, shared_states, load, chats, sticky>>
IdleLaterMonth == IdleRR /\ IdleDispatch /\ IdleMy /\ IdleSse /\ IdleDb /\ IdleBilling /\ IdlePrefix /\ IdleShared /\ IdleLoad /\ IdleChats /\ IdleSticky
laterSticky == <<errLast, rr, dispatch, myLast, sse, feedbackDb, billing, prefixPair, shared_states, load, chats, month_clock>>
IdleLaterSticky == IdleRR /\ IdleDispatch /\ IdleMy /\ IdleSse /\ IdleDb /\ IdleBilling /\ IdlePrefix /\ IdleShared /\ IdleLoad /\ IdleChats /\ IdleMonth
\* (End of the idle values and frames.)

\* The later components are idle.
IdleMore ==
    IdleGate /\ IdleStream /\ IdleExport /\ IdleFeedback /\ IdleErrors /\ IdleLater

\* Every component but the named one is idle.
IdleExcept(component) ==
    /\ IF component = "RL" THEN TRUE ELSE IdleRL
    /\ IF component = "Auth" THEN TRUE ELSE IdleAuth
    /\ IF component = "Quota" THEN TRUE ELSE IdleQuota
    /\ IF component = "Router" THEN TRUE ELSE IdleRouter
    /\ IF component = "Affinity" THEN TRUE ELSE IdleAff
    /\ IF component = "Health" THEN TRUE ELSE IdleHealth
    /\ IF component = "Pipeline" THEN TRUE ELSE IdlePipe
    /\ IF component = "Gate" THEN TRUE ELSE IdleGate
    /\ IF component = "Stream" THEN TRUE ELSE IdleStream
    /\ IF component = "Export" THEN TRUE ELSE IdleExport
    /\ IF component = "Feedback" THEN TRUE ELSE IdleFeedback
    /\ IF component = "Errors" THEN TRUE ELSE IdleErrors
    /\ IdleLater

(***************************************************************************)
(* SpecRateLimiter: calls of RateLimiter::check                            *)
(***************************************************************************)
InitRL ==
    /\ \E w \in 1..MaxWindow, n \in 0..MaxLimit : limiter = RateLimiterNew(w, n)
    /\ rlNow = 0
    /\ rlLast = NoRLCall
    /\ IdleExcept("RL")

\* One call of check with a clock that never runs backwards.
RLCheck ==
    \E now_ms \in rlNow..MaxTime :
        LET r == RateLimiterCheck(limiter, now_ms)
        IN  /\ limiter' = r.limiter
            /\ rlNow' = now_ms
            /\ rlLast' = [called |-> TRUE, now_ms |-> now_ms,
                          before |-> limiter.timestamps, ok |-> r.ok,
                          retry_after_ms |-> r.retry_after_ms]
            /\ UNCHANGED othersRL

NextRL == RLCheck

SpecRateLimiter == InitRL /\ [][NextRL]_vars

(***************************************************************************)
(* SpecAuth: calls of AuthService::validate on a configured list           *)
(***************************************************************************)
\* The stored list: 1..MaxClients entries with any keys (the configuration
\* does not require keys to differ).
InitAuth ==
    /\ \E n \in 1..MaxClients :
         \E keys \in [1..n -> ApiKeys] :
            clients = [i \in 1..n |-> [key |-> keys[i], info |-> AuthClientInfo(i)]]
    /\ authLast = NoAuthCall
    /\ IdleExcept("Auth")

\* One call of validate on the configured list. The call changes nothing, so
\* a second call from the same list would reach no further state.
AuthValidate ==
    \E key \in ApiKeys :
        /\ ~authLast.called
        /\ authLast' = [called |-> TRUE, key |-> key, result |-> Validate(clients, key)]
        /\ UNCHANGED <<clients, othersAuth>>

NextAuth == AuthValidate

SpecAuth == InitAuth /\ [][NextAuth]_vars

(***************************************************************************)
(* SpecQuota: calls of QuotaTracker::check and ::record                    *)
(***************************************************************************)
InitQuota ==
    /\ usage = QuotaTrackerNew
    /\ quotaLast = NoQuotaCall
    /\ IdleExcept("Quota")

QCheck ==
    \E client \in QuotaClients, estimated \in 0..MaxTokens,
       config \in TokenLimits, period \in Periods :
        /\ quotaLast' = [op |-> "check", client |-> client, tokens |-> estimated,
                         limit |-> config, period |-> period, before |-> usage,
                         result |-> QuotaCheck(usage, client, estimated, config, period)]
        /\ UNCHANGED <<usage, othersQuota>>

QRecord ==
    \E client \in QuotaClients, actual \in 0..MaxTokens, period \in Periods :
        LET after == QuotaRecord(usage, client, actual, period)
        IN  /\ after[client].tokens_used <= MaxUsed
            /\ usage' = after
            /\ quotaLast' = [op |-> "record", client |-> client, tokens |-> actual,
                             limit |-> None, period |-> period, before |-> usage,
                             result |-> [ok |-> TRUE, limit |-> 0, used |-> 0]]
            /\ UNCHANGED othersQuota

NextQuota == QCheck \/ QRecord

SpecQuota == InitQuota /\ [][NextQuota]_vars

(***************************************************************************)
(* SpecRouter: select_backend on any snapshot                              *)
(***************************************************************************)
\* The model lists of a snapshot backend.
ModelLists == {<<"m1">>, <<"m1", "m2">>}

\* A snapshot: backends with distinct ids (the state map is keyed by id), any
\* status and load.
InitRouter ==
    /\ \E n \in 0..MaxBackends :
         \E ms \in [1..n -> ModelLists], st \in [1..n -> Statuses],
            act \in [1..n -> 0..MaxConc] :
            snapshot = [i \in 1..n |->
                          [BackendStateNew(BackendIdAt(i), ms[i], MaxConc)
                             EXCEPT !.status = st[i], !.active_requests = act[i]]]
    /\ routeLast = NoRouteCall
    /\ IdleExcept("Router")

\* One call of select_backend on the snapshot; the hint is absent, or names a
\* backend of the snapshot or one that is not in it. The function is pure, so
\* a second call from the same snapshot would reach no further state.
RouteSelect ==
    \E model \in Models, strategy \in Strategies, round \in 0..MaxRound,
       hint \in {None} \cup {Some(BackendIdAt(i)) : i \in 1..(MaxBackends + 1)} :
        /\ ~routeLast.called
        /\ routeLast' = [called |-> TRUE, model |-> model, strategy |-> strategy,
                         round |-> round, hint |-> hint,
                         result |-> SelectBackend(snapshot, model, strategy, round, hint)]
        /\ UNCHANGED <<snapshot, othersRouter>>

NextRouter == RouteSelect

SpecRouter == InitRouter /\ [][NextRouter]_vars

(***************************************************************************)
(* SpecStrategy: select_backend for model m2 on snapshots whose backends   *)
(* carry different loads below their limit                                 *)
(***************************************************************************)
InitStrategy ==
    /\ \E n \in 1..MaxBackends :
         \E ms \in [1..n -> ModelLists],
            st \in [1..n -> {"Healthy", "Degraded", "Unhealthy"}],
            act \in [1..n -> 0..MaxLoad] :
            snapshot = [i \in 1..n |->
                          [BackendStateNew(BackendIdAt(i), ms[i], MaxLoad)
                             EXCEPT !.status = st[i], !.active_requests = act[i]]]
    /\ routeLast = NoRouteCall
    /\ IdleExcept("Router")

\* One call of select_backend for m2, which some backends do not serve,
\* without a hint or with a hint at the first backend.
StrategySelect ==
    \E strategy \in Strategies, round \in 0..MaxRound, hint \in {None, Some("b1")} :
        /\ ~routeLast.called
        /\ routeLast' = [called |-> TRUE, model |-> "m2", strategy |-> strategy,
                         round |-> round, hint |-> hint,
                         result |-> SelectBackend(snapshot, "m2", strategy, round, hint)]
        /\ UNCHANGED <<snapshot, othersRouter>>

NextStrategy == StrategySelect

SpecStrategy == InitStrategy /\ [][NextStrategy]_vars

(***************************************************************************)
(* SpecAffinity: calls of CacheAffinityMap::get, record and evict_backend  *)
(***************************************************************************)
\* The (ModelId, PrefixHash) keys and the backends of the calls.
AffinityKeys == {<<"m1", 0>>, <<"m1", 1>>, <<"m2", 0>>}
AffinityBackends == {"b1", "b2"}

InitAffinity ==
    /\ \E max_entries \in 0..MaxEntries : affinity = CacheAffinityMapNew(max_entries)
    /\ affLast = NoAffCall
    /\ IdleExcept("Affinity")

AffGet ==
    \E key \in AffinityKeys :
        LET r == AffinityGet(affinity, key[1], key[2])
        IN  /\ r.map.counter <= MaxCounter
            /\ affinity' = r.map
            /\ affLast' = [op |-> "get", key |-> key, backend |-> "",
                           before |-> affinity.entries, result |-> r.result]
            /\ UNCHANGED othersAff

AffRecord ==
    \E key \in AffinityKeys, backend \in AffinityBackends :
        /\ affinity.counter < MaxCounter
        /\ affinity' = AffinityRecord(affinity, key[1], key[2], backend)
        /\ affLast' = [op |-> "record", key |-> key, backend |-> backend,
                       before |-> affinity.entries, result |-> None]
        /\ UNCHANGED othersAff

AffEvictBackend ==
    \E backend \in AffinityBackends :
        /\ affinity' = AffinityEvictBackend(affinity, backend)
        /\ affLast' = [op |-> "evict_backend", key |-> <<>>, backend |-> backend,
                       before |-> affinity.entries, result |-> None]
        /\ UNCHANGED othersAff

NextAffinity == AffGet \/ AffRecord \/ AffEvictBackend

SpecAffinity == InitAffinity /\ [][NextAffinity]_vars

(***************************************************************************)
(* SpecHealth: the background probe loop                                   *)
(***************************************************************************)
InitHealth ==
    /\ backend_states = HealthCheckManagerNew
    /\ \E unhealthy_threshold \in 0..MaxThreshold,
          degraded_latency_ms \in 0..MaxLatency :
          healthCfg = [unhealthy_threshold |-> unhealthy_threshold,
                       degraded_latency_ms |-> degraded_latency_ms]
    /\ probe = ProbeLoopStart
    /\ healthLast = NoProbeApplied
    /\ IdleExcept("Health")

\* `probe.probe(backend).await` returns for the backend the loop is at.
ProbeReturns ==
    /\ probe.result = None
    /\ \E result \in {ProbeErr} \cup {ProbeOk(l) : l \in 0..MaxLatency} :
          /\ result.ok \/
                backend_states[Backends[probe.index].id].consecutive_failures
                    < MaxFailures
          /\ probe' = [probe EXCEPT !.result = Some(result)]
    /\ UNCHANGED <<backend_states, healthCfg, healthLast, othersHealth>>

\* The loop body after the probe: under one hold of the write lock the
\* backend's entry is removed, updated and inserted again; the loop moves on
\* to the next backend (to the first one at the next tick).
ProbeApply ==
    /\ probe.result # None
    /\ LET id == Backends[probe.index].id
           result == Unwrap(probe.result)
       IN  /\ backend_states' =
                  IF id \in DOMAIN backend_states
                  THEN [backend_states EXCEPT
                          ![id] = ProbeUpdate(backend_states[id], result,
                                              healthCfg.unhealthy_threshold,
                                              healthCfg.degraded_latency_ms)]
                  ELSE backend_states
           /\ healthLast' = [called |-> TRUE, backend |-> id, result |-> result,
                             before |-> backend_states[id]]
    /\ probe' = [index |-> IF probe.index = Len(Backends) THEN 1 ELSE probe.index + 1,
                 result |-> None]
    /\ UNCHANGED <<healthCfg, othersHealth>>

NextHealth == ProbeReturns \/ ProbeApply

SpecHealth == InitHealth /\ [][NextHealth]_vars

(***************************************************************************)
(* SpecPipeline: requests through handle_completion_inner                  *)
(***************************************************************************)
\* The configured clients. c1 may use every model, one request per minute
\* and one token per month; c2 may use m1 only and is allowed no request;
\* c3 may use every model, one request per minute, and has no monthly limit.
PipelineClients ==
    << [key |-> <<97>>,
        info |-> [id |-> "c1", allowed_models |-> "All",
                  requests_per_minute |-> 1, monthly_token_limit |-> Some(1)]],
       [key |-> <<97, 97>>,
        info |-> [id |-> "c2", allowed_models |-> <<"m1">>,
                  requests_per_minute |-> 0, monthly_token_limit |-> None]],
       [key |-> <<98>>,
        info |-> [id |-> "c3", allowed_models |-> "All",
                  requests_per_minute |-> 1, monthly_token_limit |-> None]] >>

\* Authorization headers of a request: none, another scheme, "Bearer " and a
\* byte that is no text, "Bearer " and a key (the last one is not registered).
AuthorizationHeaders ==
    {None, Some(<<66, 97, 115, 105, 99, 32, 97>>), Some(BearerPrefix \o <<200>>)}
        \cup {Some(BearerPrefix \o k) : k \in {<<97>>, <<97, 97>>, <<98>>, <<99>>}}

\* Bodies of a request: bytes that are no OaiRequest, a message with an
\* unknown role, a user message of four characters for each of three models
\* (no backend serves m3), a user message of eight characters.
Bodies ==
    {NoBody,
     [json |-> TRUE, model |-> "m1", messages |-> <<[role |-> "alien", content |-> 4]>>],
     [json |-> TRUE, model |-> "m1", messages |-> <<[role |-> "user", content |-> 8]>>]}
        \cup {[json |-> TRUE, model |-> m,
               messages |-> <<[role |-> "user", content |-> 4]>>] :
                 m \in {"m1", "m2", "m3"}}

\* What the pipeline never writes.
pipeConst == <<limiter, rlNow, rlLast, clients, authLast, quotaLast, snapshot,
               routeLast, affLast, backend_states, healthCfg, probe, healthLast,
               appCfg, varsMore>>

\* now_ms(), in milliseconds since the start of the behaviour.
NowMs == wall.tick * RateWindowMs

\* A backend the probe loop has found healthy.
ProbedHealthy(state) == WithHealthy(state, 0)

InitPipeline ==
    /\ IdleRL /\ IdleRouter /\ IdleMore
    /\ clients = PipelineClients /\ authLast = NoAuthCall
    /\ usage = QuotaTrackerNew /\ quotaLast = NoQuotaCall
    /\ \E strategy \in Strategies, enabled \in BOOLEAN :
          appCfg = [strategy |-> strategy,
                    cache |-> [enabled |-> enabled, prefix_depth |-> 1,
                               max_entries |-> 1]]
    /\ affinity = CacheAffinityMapNew(appCfg.cache.max_entries)
    /\ affLast = NoAffCall
    /\ \E probed \in {{"b1"}, BackendIds} :
          backend_states = [id \in BackendIds |->
                               IF id \in probed
                               THEN ProbedHealthy(HealthCheckManagerNew[id])
                               ELSE HealthCheckManagerNew[id]]
    /\ healthCfg = [unhealthy_threshold |-> 1, degraded_latency_ms |-> 1]
    /\ probe = ProbeLoopStart
    /\ healthLast = NoProbeApplied
    /\ rate_limiters = [c \in {} |-> RateLimiterNew(RateWindowMs, DefaultRpm)]
    /\ round_counter = 0
    /\ wall = [tick |-> 0, period |-> [year |-> 2025, month |-> 6]]
    /\ reqs = [i \in 1..MaxRequests |-> NoRequest]
    /\ pipeLast = NoStep

\* Step 7: the prefix hash, when cache-aware routing is enabled.
WithPrefixHash(req) ==
    IF appCfg.cache.enabled
    THEN [req EXCEPT !.prefix_hash =
             Some(ComputePrefixHash(req.messages, appCfg.cache.prefix_depth))]
    ELSE req

\* The step a request waits at after step 6.
PcAfterQuota == IF appCfg.cache.enabled THEN "affinity_get" ELSE "route"

\* The step a request waits at after step 14.
PcAfterRecord == IF appCfg.cache.enabled THEN "affinity_record" ELSE "done"

\* A request ends at `step` with an error or "ok".
Finish(r, step, result) ==
    [r EXCEPT !.pc = "done", !.steps = Append(r.steps, step), !.result = result]

\* A request goes on to wait at `pc` after `step`.
Proceed(r, step, pc) == [r EXCEPT !.pc = pc, !.steps = Append(r.steps, step)]

\* The slot of a request whose response has been sent: its locals are dropped.
Answered == [NoRequest EXCEPT !.pc = "done"]

\* The requests the gateway is handling.
InFlight == {i \in DOMAIN reqs : reqs[i].pc \notin {"idle", "done"}}

\* Request i has taken a step that left it as `after`.
Stepped(i, step, ok, read, after) ==
    /\ reqs' = [reqs EXCEPT ![i] = IF after.pc = "done" THEN Answered ELSE after]
    /\ pipeLast' = [req |-> i, step |-> step, ok |-> ok, read |-> read,
                    after |-> after, usage |-> usage, entries |-> affinity.entries]

\* Steps 1 to 4 of a request that arrives, and the clock reading of step 5.
\* Requests take the slots in the order of their arrival.
Receive(i) ==
    /\ reqs[i].pc = "idle"
    /\ IF i = 1 THEN TRUE ELSE reqs[i - 1].pc # "idle"
    /\ Cardinality(InFlight) < MaxInFlight
    /\ \E authorization \in AuthorizationHeaders, body \in Bodies :
          LET a == Steps1To4(clients, authorization, body)
          IN  Stepped(i, "steps1to4", a.err = "", <<>>,
                      [NoRequest EXCEPT
                          !.pc = IF a.err = "" THEN "rate_limit" ELSE "done",
                          !.authorization = authorization, !.body = body,
                          !.steps = a.steps, !.client = a.client, !.req = a.req,
                          !.now_ms = IF a.err = "" THEN NowMs ELSE 0,
                          !.result = a.err])
    /\ UNCHANGED <<pipeConst, usage, affinity, rate_limiters, round_counter, wall>>

\* Step 5 under the write lock of rate_limiters (and step 7, when step 6 is
\* skipped).
RateLimit(i) ==
    /\ reqs[i].pc = "rate_limit"
    /\ LET r == reqs[i]
           client == Unwrap(r.client)
           c == RateLimitStep(rate_limiters, ClientRateLimits(clients), client.id,
                              r.now_ms)
       IN  /\ rate_limiters' = c.limiters
           /\ Stepped(i, "rate_limit", c.ok, rate_limiters,
                 IF ~c.ok THEN Finish(r, "rate_limit", "RateLimited")
                 ELSE IF IsSome(client.monthly_token_limit)
                 THEN Proceed(r, "rate_limit", "quota")
                 ELSE [Proceed(r, "rate_limit", PcAfterQuota) EXCEPT
                          !.req = Some(WithPrefixHash(Unwrap(r.req)))])
    /\ UNCHANGED <<pipeConst, usage, affinity, round_counter, wall>>

\* Step 6 under the read lock of quota_tracker, and step 7.
Quota(i) ==
    /\ reqs[i].pc = "quota"
    /\ LET r == reqs[i]
           client == Unwrap(r.client)
           q == QuotaCheck(usage, client.id, Unwrap(r.req).estimated_input_tokens,
                           client.monthly_token_limit, wall.period)
       IN  Stepped(i, "quota", q.ok, [usage |-> usage, period |-> wall.period],
              IF ~q.ok THEN Finish(r, "quota", "QuotaExceeded")
              ELSE [Proceed(r, "quota", PcAfterQuota) EXCEPT
                       !.req = Some(WithPrefixHash(Unwrap(r.req)))])
    /\ UNCHANGED <<pipeConst, usage, affinity, rate_limiters, round_counter, wall>>

\* Step 8 under the write lock of affinity_map.
AffinityHint(i) ==
    /\ reqs[i].pc = "affinity_get"
    /\ LET r == reqs[i]
           req == Unwrap(r.req)
           g == IF IsSome(req.prefix_hash)
                THEN AffinityGet(affinity, req.model, Unwrap(req.prefix_hash))
                ELSE [map |-> affinity, result |-> None]
       IN  /\ affinity' = g.map
           /\ Stepped(i, "affinity_get", TRUE, affinity.entries,
                      [Proceed(r, "affinity_get", "route") EXCEPT !.hint = g.result])
    /\ UNCHANGED <<pipeConst, usage, rate_limiters, round_counter, wall>>

\* The orders in which HashMap::values can yield the backend states.
ValueOrders ==
    {o \in [1..Cardinality(BackendIds) -> BackendIds] :
        \A a, b \in DOMAIN o : a # b => o[a] # o[b]}

\* Steps 9 to 11: the snapshot under the read lock of backend_states, the
\* round, select_backend, and the lookups in backends_by_id and the outbound
\* registry, which hold every configured backend and both backend specs.
Route(i) ==
    /\ reqs[i].pc = "route"
    /\ \E order \in ValueOrders :
          LET r == reqs[i]
              states_vec == [k \in DOMAIN order |-> backend_states[order[k]]]
              selected == SelectBackend(states_vec, Unwrap(r.req).model,
                                        appCfg.strategy, round_counter, r.hint)
          IN  Stepped(i, "route", selected.ok, states_vec,
                 IF ~selected.ok THEN Finish(r, "route", selected.err)
                 ELSE IF selected.id \notin BackendIds
                 THEN Finish(r, "route", "NoHealthyBackend")
                 ELSE [Proceed(r, "route", "forward") EXCEPT
                          !.backend = Some(selected.id)])
    /\ round_counter' = round_counter + 1
    /\ UNCHANGED <<pipeConst, usage, affinity, rate_limiters, wall>>

\* The answers of a backend: none, a status that is no success, a body that
\* is no completion, a completion that used MaxTokens tokens.
BackendOutcomes ==
    {[err |-> e, total_tokens |-> 0] : e \in {"Connection", "HttpStatus", "ParseRequest"}}
        \cup {[err |-> "", total_tokens |-> MaxTokens]}

\* A plausible slip: usage and affinity are recorded before the answer of
\* the backend is looked at.
ForwardedRecordingFirst(r, outcome) ==
    IF IsSome(Unwrap(r.client).monthly_token_limit)
    THEN [Proceed(r, "forward", "quota_record") EXCEPT
             !.total_tokens = outcome.total_tokens]
    ELSE IF outcome.err # "" THEN Finish(r, "forward", outcome.err)
    ELSE IF PcAfterRecord = "done" THEN Finish(r, "forward", "ok")
    ELSE [Proceed(r, "forward", PcAfterRecord) EXCEPT
             !.total_tokens = outcome.total_tokens]

\* The request after steps 12 and 13: an error of the backend ends it; a
\* parsed response takes it on to step 14, 15 or 16.
Forwarded(r, outcome) ==
    IF outcome.err # "" THEN Finish(r, "forward", outcome.err)
    ELSE IF IsSome(Unwrap(r.client).monthly_token_limit)
    THEN [Proceed(r, "forward", "quota_record") EXCEPT
             !.total_tokens = outcome.total_tokens]
    ELSE IF PcAfterRecord = "done" THEN Finish(r, "forward", "ok")
    ELSE [Proceed(r, "forward", PcAfterRecord) EXCEPT
             !.total_tokens = outcome.total_tokens]

\* Steps 12 and 13 (and step 16, when steps 14 and 15 are skipped).
Forward(i) ==
    /\ reqs[i].pc = "forward"
    /\ \E outcome \in BackendOutcomes :
          Stepped(i, "forward", outcome.err = "", <<>>, Forwarded(reqs[i], outcome))
    /\ UNCHANGED <<pipeConst, usage, affinity, rate_limiters, round_counter, wall>>

\* Step 14 under the write lock of quota_tracker (and step 16, when step 15
\* is skipped).
QuotaRecordStep(i) ==
    /\ reqs[i].pc = "quota_record"
    /\ LET r == reqs[i]
       IN  /\ usage' = QuotaRecord(usage, Unwrap(r.client).id, r.total_tokens,
                                   wall.period)
           /\ Stepped(i, "quota_record", TRUE,
                      [usage |-> usage, period |-> wall.period],
                      IF PcAfterRecord = "done" THEN Finish(r, "quota_record", "ok")
                      ELSE Proceed(r, "quota_record", PcAfterRecord))
    /\ UNCHANGED <<pipeConst, affinity, rate_limiters, round_counter, wall>>

\* Step 15 under the write lock of affinity_map, and step 16.
AffinityRecordStep(i) ==
    /\ reqs[i].pc = "affinity_record"
    /\ LET r == reqs[i]
           req == Unwrap(r.req)
       IN  /\ affinity' = IF IsSome(req.prefix_hash)
                          THEN AffinityRecord(affinity, req.model,
                                              Unwrap(req.prefix_hash), Unwrap(r.backend))
                          ELSE affinity
           /\ Stepped(i, "affinity_record", TRUE, affinity.entries,
                      Finish(r, "affinity_record", "ok"))
    /\ UNCHANGED <<pipeConst, usage, rate_limiters, round_counter, wall>>

\* Time passes: one rate window, within the month.
Tick ==
    /\ wall.tick < MaxTicks
    /\ wall' = [wall EXCEPT !.tick = wall.tick + 1]
    /\ UNCHANGED <<pipeConst, usage, affinity, rate_limiters, round_counter, reqs,
                   pipeLast>>

NextPipeline ==
    \/ \E i \in 1..MaxRequests :
          \/ Receive(i) \/ RateLimit(i) \/ Quota(i) \/ AffinityHint(i) \/ Route(i)
          \/ Forward(i) \/ QuotaRecordStep(i) \/ AffinityRecordStep(i)
    \/ Tick

SpecPipeline == InitPipeline /\ [][NextPipeline]_vars

(***************************************************************************)
(* SpecStreamPipe: handle_completion_stream. Steps 1 to 11 of              *)
(* handle_stream_inner are the code of handle_completion_inner, statement  *)
(* for statement, and are taken with the same actions; then the request is *)
(* sent with stream = true and the response is handed to                   *)
(* make_event_stream. The gateway starts with the usage earlier buffered   *)
(* requests may have left.                                                 *)
(***************************************************************************)
\* The month before the period of the behaviour.
PreviousPeriod == [year |-> 2025, month |-> 5]

\* QuotaTracker.usage when the streaming requests begin: nothing, or an
\* entry of client c1 of this month or of last month.
UsageBefore ==
    {QuotaTrackerNew}
        \cup {[c \in {"c1"} |-> [period |-> p, tokens_used |-> 1]] :
                 p \in {[year |-> 2025, month |-> 6], PreviousPeriod}}

InitStreamPipe ==
    /\ IdleRL /\ IdleRouter /\ IdleMore
    /\ clients = PipelineClients /\ authLast = NoAuthCall
    /\ usage \in UsageBefore /\ quotaLast = NoQuotaCall
    /\ \E enabled \in BOOLEAN :
          appCfg = [strategy |-> "LeastLoaded",
                    cache |-> [enabled |-> enabled, prefix_depth |-> 1,
                               max_entries |-> 1]]
    /\ affinity = CacheAffinityMapNew(appCfg.cache.max_entries)
    /\ affLast = NoAffCall
    /\ backend_states = [id \in BackendIds |-> ProbedHealthy(HealthCheckManagerNew[id])]
    /\ healthCfg = [unhealthy_threshold |-> 1, degraded_latency_ms |-> 1]
    /\ probe = ProbeLoopStart
    /\ healthLast = NoProbeApplied
    /\ rate_limiters = [c \in {} |-> RateLimiterNew(RateWindowMs, DefaultRpm)]
    /\ round_counter = 0
    /\ wall = [tick |-> 0, period |-> [year |-> 2025, month |-> 6]]
    /\ reqs = [i \in 1..MaxRequests |-> NoRequest]
    /\ pipeLast = NoStep

\* The answers of a backend to a streamed request: none, a status that is
\* no success, a response whose body is the stream.
StreamOutcomes == {"Connection", "HttpStatus", ""}

\* Steps 12 and 13 of the streaming pipeline: an error ends the request,
\* otherwise the SSE response is returned and the event stream runs.
StreamForward(i) ==
    /\ reqs[i].pc = "forward"
    /\ \E err \in StreamOutcomes :
          Stepped(i, "forward", err = "", <<>>,
                  IF err # "" THEN Finish(reqs[i], "forward", err)
                  ELSE Proceed(reqs[i], "forward", "streaming"))
    /\ UNCHANGED <<pipeConst, usage, affinity, rate_limiters, round_counter, wall>>

\* A plausible slip: the tokens of the streamed response are recorded as
\* those of a buffered one are.
UsageAfterStreamRecorded(u, client, period) == QuotaRecord(u, client, MaxTokens, period)

\* QuotaTracker.usage after the event stream of a request of `client`:
\* make_event_stream ends with `let _ = (client_id, finished);`.
UsageAfterStream(u, client, period) == u

\* The event stream of request i runs to its end (steps 14 to 16), or the
\* client goes away and the stream is dropped where it is.
StreamBody(i) ==
    /\ reqs[i].pc = "streaming"
    /\ LET r == reqs[i]
           req == Unwrap(r.req)
       IN  \E completed \in BOOLEAN :
              /\ affinity' = IF completed /\ appCfg.cache.enabled /\ IsSome(req.prefix_hash)
                             THEN AffinityRecord(affinity, req.model,
                                                 Unwrap(req.prefix_hash), Unwrap(r.backend))
                             ELSE affinity
              /\ usage' = IF completed
                          THEN UsageAfterStream(usage, Unwrap(r.client).id, wall.period)
                          ELSE usage
              /\ Stepped(i, "stream", completed, <<>>,
                         Finish(r, "stream", IF completed THEN "ok" ELSE "dropped"))
    /\ UNCHANGED <<pipeConst, rate_limiters, round_counter, wall>>

NextStreamPipe ==
    \/ \E i \in 1..MaxRequests :
          \/ Receive(i) \/ RateLimit(i) \/ Quota(i) \/ AffinityHint(i) \/ Route(i)
          \/ StreamForward(i) \/ StreamBody(i)
    \/ Tick

SpecStreamPipe == InitStreamPipe /\ [][NextStreamPipe]_vars

(***************************************************************************)
(* SpecGateway: the probe loop of start_background_checks running beside   *)
(* the requests of handle_completion, over the shared backend states and   *)
(* affinity map. A request is one of a client without a monthly limit      *)
(* that passes steps 1 to 7; its steps 8 to 15 are taken between two steps *)
(* of the probe loop.                                                      *)
(***************************************************************************)
\* Cache-aware routing is on and every backend has answered a first probe.
InitGateway ==
    /\ InitPipeline
    /\ appCfg.cache.enabled
    /\ appCfg.strategy = "LeastLoaded"
    /\ \A id \in BackendIds : backend_states[id].status = "Healthy"

\* The prefix hash of the requests.
GatewayPrefixes == {<<4>>}

\* Steps 8 to 15 of one request: the affinity hint, the snapshot and
\* select_backend, the backend's answer, the affinity record.
ServeRequest ==
    /\ round_counter < MaxRound
    /\ affinity.counter + 2 <= MaxCounter
    /\ \E model \in Models, prefix \in GatewayPrefixes, order \in ValueOrders,
          answered \in BOOLEAN :
          LET g == AffinityGet(affinity, model, prefix)
              states_vec == [k \in DOMAIN order |-> backend_states[order[k]]]
              selected == SelectBackend(states_vec, model, appCfg.strategy,
                                        round_counter, g.result)
          IN  affinity' = IF selected.ok /\ selected.id \in BackendIds /\ answered
                          THEN AffinityRecord(g.map, model, prefix, selected.id)
                          ELSE g.map
    /\ round_counter' = round_counter + 1
    /\ UNCHANGED <<pipeConst, usage, rate_limiters, wall, reqs, pipeLast>>

NextGateway == ServeRequest \/ ProbeReturns \/ ProbeApply

SpecGateway == InitGateway /\ [][NextGateway]_vars

(***************************************************************************)
(* The feedback store and export_dpo_pairs (mb-feedback/src/store.rs,      *)
(* export.rs). The store is the SQLite one, with foreign keys on: a turn   *)
(* names a stored conversation and an annotation a stored turn. Errors of  *)
(* the database itself are left out.                                       *)
(***************************************************************************)
Verdicts == {"Refused", "Biased", "Satisfactory"}
TurnRoles == {"User", "Assistant", "System"}

\* str::trim, over the one blank of the model.
RECURSIVE StrTrimStart(_)
StrTrimStart(s) == IF s # <<>> /\ Head(s) = " " THEN StrTrimStart(Tail(s)) ELSE s
RECURSIVE StrTrimEnd(_)
StrTrimEnd(s) ==
    IF s # <<>> /\ s[Len(s)] = " " THEN StrTrimEnd(SubSeq(s, 1, Len(s) - 1)) ELSE s
StrTrim(s) == StrTrimEnd(StrTrimStart(s))

\* `ORDER BY created_at ASC`: rows of equal created_at stay in the order of
\* their insertion.
RECURSIVE InsertByCreatedAt(_, _)
InsertByCreatedAt(sorted, row) ==
    IF sorted = <<>> THEN <<row>>
    ELSE IF Head(sorted).created_at <= row.created_at
    THEN <<Head(sorted)>> \o InsertByCreatedAt(Tail(sorted), row)
    ELSE <<row>> \o sorted
RECURSIVE OrderByCreatedAt(_)
OrderByCreatedAt(rows) ==
    IF rows = <<>> THEN <<>>
    ELSE InsertByCreatedAt(OrderByCreatedAt(SubSeq(rows, 1, Len(rows) - 1)),
                           rows[Len(rows)])

\* The first row with the id, if any (`WHERE id = ?1`, optional()).
RowById(rows, id) ==
    IF \E i \in DOMAIN rows : rows[i].id = id
    THEN Some(rows[CHOOSE i \in DOMAIN rows : rows[i].id = id])
    ELSE None

list_annotations(store) == OrderByCreatedAt(store.annotations)
get_turn_by_id(store, turn_id) == RowById(store.turns, turn_id)
get_conversation_by_id(store, id) == RowById(store.conversations, id)
get_turns_for_conversation(store, conversation_id) ==
    LET OfConversation(turn) == turn.conversation_id = conversation_id
    IN  OrderByCreatedAt(SelectSeq(store.turns, OfConversation))

\* `turns.iter().position(|turn| turn.id == id)`, 0 for None.
Position(turns, id) ==
    IF \E i \in DOMAIN turns : turns[i].id = id
    THEN CHOOSE i \in DOMAIN turns :
            turns[i].id = id /\ \A j \in 1..(i - 1) : turns[j].id # id
    ELSE 0

\* A plausible slip: the first user turn before the annotated one.
PromptTurnFirst(turns, assistant_index) ==
    LET users == {i \in 1..(assistant_index - 1) : turns[i].role = "User"}
    IN  IF users = {} THEN None
        ELSE Some(turns[CHOOSE i \in users : \A j \in users : j >= i])

\* `turns[..assistant_index].iter().rev().find(|turn| turn.role == User)`
PromptTurn(turns, assistant_index) ==
    LET users == {i \in 1..(assistant_index - 1) : turns[i].role = "User"}
    IN  IF users = {} THEN None
        ELSE Some(turns[CHOOSE i \in users : \A j \in users : j <= i])

\* The body of the loop of export_dpo_pairs for one annotation: the pair it
\* pushes, if any.
PairOf(store, filter, annotation) ==
    LET chosen_response ==
            IF IsSome(annotation.expected_response)
               /\ StrTrim(Unwrap(annotation.expected_response)) # <<>>
            THEN Some(StrTrim(Unwrap(annotation.expected_response))) ELSE None
        annotated_turn == get_turn_by_id(store, annotation.turn_id)
        conversation == get_conversation_by_id(store, Unwrap(annotated_turn).conversation_id)
        turns == get_turns_for_conversation(store, Unwrap(conversation).id)
        assistant_index == Position(turns, Unwrap(annotated_turn).id)
        prompt_turn == PromptTurn(turns, assistant_index)
    IN  IF IsSome(filter.annotator_id)
           /\ annotation.annotator_id # Unwrap(filter.annotator_id) THEN None
        ELSE IF IsSome(filter.verdict) /\ annotation.verdict # Unwrap(filter.verdict)
        THEN None
        ELSE IF annotation.verdict \notin {"Refused", "Biased"} THEN None
        ELSE IF IsSome(filter.since) /\ annotation.created_at < Unwrap(filter.since)
        THEN None
        ELSE IF IsSome(filter.until) /\ annotation.created_at > Unwrap(filter.until)
        THEN None
        ELSE IF chosen_response = None THEN None
        ELSE IF annotated_turn = None THEN None
        ELSE IF Unwrap(annotated_turn).role # "Assistant" THEN None
        ELSE IF conversation = None THEN None
        ELSE IF IsSome(filter.model_id)
                /\ Unwrap(conversation).model_id # Unwrap(filter.model_id) THEN None
        ELSE IF assistant_index = 0 THEN None
        ELSE IF prompt_turn = None THEN None
        ELSE Some([prompt |-> Unwrap(prompt_turn).content,
                   chosen |-> Unwrap(chosen_response),
                   rejected |-> Unwrap(annotated_turn).content,
                   metadata |-> [conversation_id |-> Unwrap(conversation).id,
                                 model_id |-> Unwrap(conversation).model_id,
                                 annotator_id |-> annotation.annotator_id,
                                 verdict |-> annotation.verdict,
                                 annotated_at |-> annotation.created_at]])

RECURSIVE PairsOf(_, _, _)
PairsOf(store, filter, annotations) ==
    IF annotations = <<>> THEN <<>>
    ELSE PairOf(store, filter, Head(annotations))
            \o PairsOf(store, filter, Tail(annotations))

\* export_dpo_pairs: Ok(pairs).
export_dpo_pairs(store, filter) == PairsOf(store, filter, list_annotations(store))

(***************************************************************************)
(* SpecExport: export_dpo_pairs over the stores and filters of the bounds  *)
(***************************************************************************)
\* Two conversations, of different clients and models.
StoredConversations ==
    <<[id |-> "k1", client_id |-> "c1", model_id |-> "m1", created_at |-> 0],
      [id |-> "k2", client_id |-> "c2", model_id |-> "m2", created_at |-> 0]>>

\* What a turn is made of: the turns of k1 have any role, k2 holds user turns.
TurnKinds ==
    {[conversation_id |-> "k1", role |-> r] : r \in TurnRoles}
        \cup {[conversation_id |-> "k2", role |-> "User"]}

\* The turns table after the inserts `kinds`: the i-th turn has id i, was
\* created at time i and its content is the text <<i>>.
TurnsOf(kinds) ==
    [i \in DOMAIN kinds |->
        [id |-> i, conversation_id |-> kinds[i].conversation_id,
         role |-> kinds[i].role, content |-> <<i>>, created_at |-> i]]

ExpectedResponses == {None, Some(<<" ">>), Some(<<" ", "a", " ">>)}

\* The annotations that can be stored on the turns.
AnnotationsOn(turns) ==
    [turn_id : {turns[i].id : i \in DOMAIN turns}, annotator_id : {"c1", "c2"},
     verdict : Verdicts, expected_response : ExpectedResponses,
     created_at : 0..MaxStamp]

ExportFilters ==
    [annotator_id : {None, Some("c1")},
     model_id : {None, Some("m1"), Some("m2")},
     verdict : {None, Some("Refused"), Some("Satisfactory")},
     since : {None, Some(1)}, until : {None, Some(1)}]

InitExport ==
    /\ \E kinds \in SeqsUpTo(TurnKinds, MaxTurns) :
          \E annotations \in SeqsUpTo(AnnotationsOn(TurnsOf(kinds)), MaxAnnotations) :
             fbStore = [conversations |-> StoredConversations,
                        turns |-> TurnsOf(kinds),
                        annotations |-> annotations,
                        cla_records |-> {}]
    /\ exportLast = NoExport
    /\ IdleRL /\ IdleAuth /\ IdleQuota /\ IdleRouter /\ IdleAff /\ IdleHealth
    /\ IdlePipe /\ IdleGate /\ IdleStream /\ IdleFeedback /\ IdleErrors /\ IdleLater

exportConst == <<varsRL, varsAuth, varsQuota, varsRouter, varsAff, varsHealth,
                 varsPipe, varsGate, varsStream, varsFeedback, varsErrors,
                 varsLater>>

\* The call of export_dpo_pairs (the store is read, never written: a second
\* call would see what the first one saw).
Export ==
    /\ ~exportLast.called
    /\ \E filter \in ExportFilters :
          /\ exportLast' = [called |-> TRUE, filter |-> filter,
                            pairs |-> export_dpo_pairs(fbStore, filter)]
    /\ UNCHANGED <<fbStore, exportConst>>

NextExport == Export

SpecExport == InitExport /\ [][NextExport]_vars

(***************************************************************************)
(* SpecFeedback: POST /v1/feedback (mb-server/src/feedback.rs) over the    *)
(* feedback store and the auth service                                     *)
(***************************************************************************)
\* extract_feedback_api_key: the x-api-key header when it is text, else the
\* bearer token of the authorization header.
extract_feedback_api_key(headers) ==
    LET raw == IF IsSome(headers.x_api_key) THEN ToStr(Unwrap(headers.x_api_key))
               ELSE None
    IN  IF IsSome(raw) THEN [ok |-> TRUE, key |-> Unwrap(raw)]
        ELSE ExtractApiKey(headers.authorization)

\* parse_verdict
parse_verdict(verdict) ==
    CASE verdict = "refused" -> Some("Refused")
      [] verdict = "biased" -> Some("Biased")
      [] verdict = "satisfactory" -> Some("Satisfactory")
      [] OTHER -> None

\* SqliteFeedbackStore::check_cla_status
check_cla_status(store, client_id) == client_id \in store.cla_records

\* SqliteFeedbackStore::record_cla_signature: an upsert on client_id.
record_cla_signature(store, client_id) ==
    [store EXCEPT !.cla_records = @ \cup {client_id}]

\* SqliteFeedbackStore::insert_annotation: the row is stored when its turn_id
\* references a stored turn (foreign keys are on).
insert_annotation(store, ann) ==
    IF IsSome(get_turn_by_id(store, ann.turn_id))
    THEN [ok |-> TRUE, store |-> [store EXCEPT !.annotations = Append(@, ann)]]
    ELSE [ok |-> FALSE, store |-> store]

\* The Json<FeedbackRequest> extractor of post_feedback: a body without a
\* JSON content type, one that is no JSON, and one that is no
\* FeedbackRequest (a turn_id that is no UUID) are rejected before the
\* handler's body runs.
JsonRejection(body) ==
    CASE body.json = "NoContentType" -> 415
      [] body.json = "Syntax" -> 400
      [] body.json = "Data" -> 422
      [] OTHER -> 0

\* json_error and the 201 response, as [status, type, store].
FeedbackResponse(status, store) ==
    [status |-> status, type |-> IF status = 201 THEN "" ELSE "feedback_error",
     store |-> store]

\* A plausible slip: the CLA check is left out.
AfterAuthNoCla(store, client_id, body, now) ==
    LET verdict == parse_verdict(body.verdict)
    IN  IF ~IsSome(verdict) THEN FeedbackResponse(422, store)
        ELSE LET annotation == [turn_id |-> body.turn_id, annotator_id |-> client_id,
                                verdict |-> Unwrap(verdict),
                                expected_response |-> body.expected_response,
                                created_at |-> now]
                 inserted == insert_annotation(store, annotation)
             IN  IF inserted.ok THEN FeedbackResponse(201, inserted.store)
                 ELSE FeedbackResponse(500, store)

\* post_feedback from the CLA check on, for the validated client.
AfterAuth(store, client_id, body, now) ==
    IF ~check_cla_status(store, client_id) THEN FeedbackResponse(403, store)
    ELSE
    LET verdict == parse_verdict(body.verdict)
    IN  IF ~IsSome(verdict) THEN FeedbackResponse(422, store)
        ELSE LET annotation == [turn_id |-> body.turn_id, annotator_id |-> client_id,
                                verdict |-> Unwrap(verdict),
                                expected_response |-> body.expected_response,
                                created_at |-> now]
                 inserted == insert_annotation(store, annotation)
             IN  IF inserted.ok THEN FeedbackResponse(201, inserted.store)
                 ELSE FeedbackResponse(500, store)

\* post_feedback, the extractors of its signature included.
post_feedback(state, cl, store, headers, body, now) ==
    IF JsonRejection(body) # 0
    THEN [status |-> JsonRejection(body), type |-> "rejection", store |-> store]
    ELSE IF ~IsSome(state) THEN FeedbackResponse(500, store)
    ELSE
    LET api_key == extract_feedback_api_key(headers)
        client_info == IF api_key.ok THEN Validate(cl, api_key.key)
                       ELSE [ok |-> FALSE, info |-> None]
    IN  IF ~api_key.ok THEN FeedbackResponse(401, store)
        ELSE IF ~client_info.ok THEN FeedbackResponse(401, store)
        ELSE AfterAuth(store, Unwrap(client_info.info).id, body, now)

\* The headers of a feedback request: x-api-key absent, no text, the key of
\* c3 or of nobody; authorization absent, the bearer key of c1 or of nobody.
FeedbackHeaders ==
    [x_api_key : {None, Some(<<200>>), Some(<<98>>), Some(<<99>>)},
     authorization : {None, Some(BearerPrefix \o <<97>>),
                      Some(BearerPrefix \o <<99>>)}]

\* The turns the store holds: a user turn and an assistant turn of k1.
FeedbackTurns ==
    TurnsOf(<<[conversation_id |-> "k1", role |-> "User"],
              [conversation_id |-> "k1", role |-> "Assistant"]>>)

\* The bodies of a feedback request: the rejected ones, and a
\* FeedbackRequest on a stored turn or on turn 9, which is not stored.
FeedbackBodies ==
    [json : {"Syntax", "Data"}, turn_id : {0}, verdict : {""},
     expected_response : {None}]
        \cup [json : {"FeedbackRequest"}, turn_id : {2, 9},
              verdict : {"refused", "maybe"}, expected_response : {None}]

InitFeedback ==
    /\ IdleRL /\ IdleQuota /\ IdleRouter /\ IdleAff /\ IdleHealth /\ IdlePipe
    /\ IdleGate /\ IdleStream /\ IdleErrors /\ IdleLater
    /\ clients = PipelineClients /\ authLast = NoAuthCall
    /\ fbStore = [conversations |-> <<StoredConversations[1]>>,
                  turns |-> FeedbackTurns, annotations |-> <<>>,
                  cla_records |-> {}]
    /\ exportLast = NoExport
    /\ \E opened \in BOOLEAN :
          feedback = IF opened THEN Some("store") ELSE None
    /\ feedbackLast = NoFeedback

feedbackConst == <<varsRL, authLast, varsQuota, varsRouter, varsAff, varsHealth,
                   varsPipe, varsGate, varsStream, exportLast, feedback,
                   varsErrors, varsLater>>

\* A client's CLA signature is recorded in the store.
RecordClaSignature ==
    /\ \E client_id \in {"c1", "c3"} :
          /\ client_id \notin fbStore.cla_records
          /\ fbStore' = record_cla_signature(fbStore, client_id)
    /\ UNCHANGED <<feedbackConst, clients, feedbackLast>>

\* One POST /v1/feedback, from the extractors to the response. Utc::now()
\* is read as the number of annotations stored so far.
PostFeedbackOf(requestHeaders, requestBodies) ==
    /\ Len(fbStore.annotations) < MaxPosted
    /\ \E headers \in requestHeaders, body \in requestBodies :
          LET r == post_feedback(feedback, clients, fbStore, headers, body,
                                 Len(fbStore.annotations))
          IN  /\ fbStore' = r.store
              /\ feedbackLast' = [called |-> TRUE, headers |-> headers,
                                  body |-> body, status |-> r.status,
                                  type |-> r.type, before |-> fbStore,
                                  after |-> r.store]
    /\ UNCHANGED <<feedbackConst, clients>>

PostFeedback == PostFeedbackOf(FeedbackHeaders, FeedbackBodies)

NextFeedback == RecordClaSignature \/ PostFeedback

SpecFeedback == InitFeedback /\ [][NextFeedback]_vars

(***************************************************************************)
(* SpecErrors: gateway_error_to_response (mb-server/src/handler.rs) over   *)
(* the errors of mb-core/src/core_domain/error.rs                          *)
(***************************************************************************)
\* The HTTP statuses a backend answers with, in BackendError::HttpStatus.
BackendHttpStatuses == {400, 401, 404, 429, 500, 503}

ErrModels == {"m1", "m2", "m3"}
ErrInfo == 0..MaxErrInfo

\* enum AuthError
AuthErrors ==
    {GatewayErr("Auth", "InvalidApiKey", "", "", 0, 0, 0)}
        \cup {GatewayErr("Auth", "ModelNotPermitted", model, client, 0, 0, 0) :
                 model \in ErrModels, client \in ClientIds}

\* enum RoutingError
RoutingErrors ==
    {GatewayErr("Routing", inner, model, "", 0, 0, 0) :
        inner \in {"NoHealthyBackend", "ModelNotFound"}, model \in ErrModels}

\* enum AdapterError
AdapterErrors ==
    {GatewayErr("Adapter", inner, "", "", 0, 0, msg) :
        inner \in {"ParseRequest", "FormatResponse", "UnsupportedFeature"},
        msg \in ErrInfo}

\* enum BackendError
BackendErrors ==
    {GatewayErr("Backend", "HttpStatus", "", "", status, 0, body) :
        status \in BackendHttpStatuses, body \in ErrInfo}
        \cup {GatewayErr("Backend", "Connection", "", "", 0, 0, msg) : msg \in ErrInfo}
        \cup {GatewayErr("Backend", "Timeout", "", backend, timeout_ms, 0, 0) :
                 backend \in {"b1", "b2"}, timeout_ms \in ErrInfo}

\* enum GatewayError
GatewayErrors ==
    AuthErrors \cup RoutingErrors \cup AdapterErrors \cup BackendErrors
        \cup {GatewayErr("RateLimited", "", "", "", retry_after_ms, 0, 0) :
                 retry_after_ms \in ErrInfo}
        \cup {GatewayErr("QuotaExceeded", "", "", "", used, limit, 0) :
                 used \in ErrInfo, limit \in ErrInfo}

\* StatusCode::as_u16
AsU16(status) == status % 65536

\* The response of gateway_error_to_response: the status and the JSON body
\* (without the message, which is err.to_string()).
ErrorResponse(status, error_type) ==
    [status |-> status,
     body |-> [error |-> [type |-> error_type, code |-> AsU16(status)]]]

\* A plausible slip: the status of the backend's answer is passed on.
RespondPassingBackendStatus(err) ==
    CASE err.variant = "Auth" /\ err.inner = "InvalidApiKey" ->
            ErrorResponse(401, "authentication_error")
      [] err.variant = "Auth" /\ err.inner = "ModelNotPermitted" ->
            ErrorResponse(403, "permission_error")
      [] err.variant = "RateLimited" -> ErrorResponse(429, "rate_limit_error")
      [] err.variant = "QuotaExceeded" -> ErrorResponse(402, "quota_error")
      [] err.variant = "Routing" /\ err.inner = "ModelNotFound" ->
            ErrorResponse(404, "not_found_error")
      [] err.variant = "Routing" /\ err.inner = "NoHealthyBackend" ->
            ErrorResponse(503, "service_unavailable")
      [] err.variant = "Adapter" /\ err.inner = "ParseRequest" ->
            ErrorResponse(400, "invalid_request_error")
      [] err.variant = "Backend" /\ err.inner = "HttpStatus" ->
            ErrorResponse(err.n, "backend_error")
      [] err.variant = "Backend" -> ErrorResponse(502, "backend_error")
      [] OTHER -> ErrorResponse(500, "server_error")

\* gateway_error_to_response: the arms of the match, in their order.
gateway_error_to_response(err) ==
    CASE err.variant = "Auth" /\ err.inner = "InvalidApiKey" ->
            ErrorResponse(401, "authentication_error")
      [] err.variant = "Auth" /\ err.inner = "ModelNotPermitted" ->
            ErrorResponse(403, "permission_error")
      [] err.variant = "RateLimited" -> ErrorResponse(429, "rate_limit_error")
      [] err.variant = "QuotaExceeded" -> ErrorResponse(402, "quota_error")
      [] err.variant = "Routing" /\ err.inner = "ModelNotFound" ->
            ErrorResponse(404, "not_found_error")
      [] err.variant = "Routing" /\ err.inner = "NoHealthyBackend" ->
            ErrorResponse(503, "service_unavailable")
      [] err.variant = "Adapter" /\ err.inner = "ParseRequest" ->
            ErrorResponse(400, "invalid_request_error")
      [] err.variant = "Backend" -> ErrorResponse(502, "backend_error")
      [] OTHER -> ErrorResponse(500, "server_error")

InitErrors ==
    /\ IdleExcept("Errors")
    /\ errLast = NoErrorResponse

\* A handler ends with Err(e) and answers gateway_error_to_response(e).
RespondError ==
    /\ \E err \in GatewayErrors :
          errLast' = [called |-> TRUE, err |-> err,
                      response |-> gateway_error_to_response(err)]
    /\ UNCHANGED <<varsRL, varsAuth, varsQuota, varsRouter, varsAff, varsHealth,
                   varsPipe, varsGate, varsStream, varsExport, varsFeedback,
                   varsLater>>

NextErrors == RespondError

SpecErrors == InitErrors /\ [][NextErrors]_vars

(***************************************************************************)
(* SpecRoundRobin: step 9 of handle_completion_inner under concurrent      *)
(* requests, with strategy RoundRobin, cache-aware routing disabled and a  *)
(* state map that no probe changes. Each request collects the values of    *)
(* the state map under the read lock, draws its round with fetch_add and   *)
(* calls select_backend; the read lock is shared, so requests interleave   *)
(* between the snapshot and the fetch_add.                                 *)
(***************************************************************************)
\* The i-th backend: it serves m1, is Healthy and has capacity.
RRBackend(i) == WithHealthy(BackendStateNew(BackendIdAt(i), <<"m1">>, 1), 0)

\* The orders in which HashMap::values yields n states; a map that is not
\* written yields them in the same order every time.
RROrders(n) ==
    {o \in [1..n -> 1..n] : \A a, b \in 1..n : a # b => o[a] # o[b]}

RRStart == [pc |-> "start", states_vec |-> <<>>, round |-> 0, backend |-> ""]

InitRoundRobin ==
    /\ IdleEarlier /\ IdleLaterRR
    /\ \E n \in 1..MaxRRBackends : \E o \in RROrders(n) :
          rr = [order |-> [k \in 1..n |-> RRBackend(o[k])],
                round_counter |-> 0,
                reqs |-> [i \in 1..MaxRRRequests |-> RRStart]]

\* A plausible slip: the counter is loaded and not advanced.
FetchAddNotAdding(counter) == [round |-> counter, counter |-> counter]

\* AtomicUsize::fetch_add(1): the previous value, and the counter after.
FetchAdd(counter) == [round |-> counter, counter |-> counter + 1]

\* backend_states.read().await and values().cloned().collect()
RRSnapshot(i) ==
    /\ rr.reqs[i].pc = "start"
    /\ rr' = [rr EXCEPT !.reqs[i].pc = "snapshot", !.reqs[i].states_vec = rr.order]
    /\ UNCHANGED <<varsEarlier, laterRR>>

\* round_counter.fetch_add and select_backend, without an affinity hint.
RRSelect(i) ==
    /\ rr.reqs[i].pc = "snapshot"
    /\ LET drawn == FetchAdd(rr.round_counter)
           selected == SelectBackend(rr.reqs[i].states_vec, "m1", "RoundRobin",
                                     drawn.round, None)
       IN  rr' = [rr EXCEPT !.round_counter = drawn.counter,
                            !.reqs[i].pc = "routed",
                            !.reqs[i].round = drawn.round,
                            !.reqs[i].backend = IF selected.ok THEN selected.id
                                                ELSE selected.err]
    /\ UNCHANGED <<varsEarlier, laterRR>>

NextRoundRobin == \E i \in 1..MaxRRRequests : RRSnapshot(i) \/ RRSelect(i)

SpecRoundRobin == InitRoundRobin /\ [][NextRoundRobin]_vars

(***************************************************************************)
(* SpecDispatch: which handler serves POST /v1/chat/completions, under the *)
(* route table of run_gateway (mb-server/src/main.rs) and under the        *)
(* dispatch handler of the test gateway (mb-server/tests/common/mod.rs)    *)
(***************************************************************************)
\* The bodies of a chat request: bytes that are no JSON, and JSON whose
\* `stream` is absent, a boolean, or something else.
ChatBodies ==
    {[json |-> FALSE, stream |-> "absent"]}
        \cup [json : {TRUE}, stream : {"absent", "true", "false", "other"}]

\* json.get("stream").and_then(|v| v.as_bool()).unwrap_or(false)
StreamRequested(body) == body.json /\ body.stream = "true"

\* The handler the route table of run_gateway gives POST /v1/chat/completions.
run_gateway_route(body) == <<"handle_completion">>

\* dispatch_handler of the test gateway, as the handlers it passes through.
dispatch_handler(body) ==
    IF StreamRequested(body) THEN <<"dispatch_handler", "handle_completion_stream">>
    ELSE <<"dispatch_handler", "handle_completion">>

\* The pipeline a handler runs: handle_completion runs handle_completion_inner,
\* handle_completion_stream runs handle_stream_inner.
PipelineOf(handler) ==
    IF handler = "handle_completion_stream" THEN "streaming" ELSE "buffered"

InitDispatch ==
    /\ IdleEarlier /\ IdleLaterDispatch
    /\ \E router \in {"run_gateway", "TestGateway"} :
          dispatch = [router |-> router,
                      served |-> [buffered |-> 0, streaming |-> 0],
                      body |-> [json |-> FALSE, stream |-> "absent"],
                      handlers |-> <<>>]

\* One POST /v1/chat/completions arrives and is handed to its handler.
ServeChat ==
    /\ dispatch.served.buffered + dispatch.served.streaming < MaxServed
    /\ \E body \in ChatBodies :
          LET handlers == IF dispatch.router = "run_gateway"
                          THEN run_gateway_route(body)
                          ELSE dispatch_handler(body)
              pipeline == PipelineOf(handlers[Len(handlers)])
          IN  dispatch' = [dispatch EXCEPT
                              !.served[pipeline] = @ + 1, !.body = body,
                              !.handlers = handlers]
    /\ UNCHANGED <<varsEarlier, laterDispatch>>

NextDispatch == ServeChat

SpecDispatch == InitDispatch /\ [][NextDispatch]_vars

(***************************************************************************)
(* SpecMyAnnotations: GET /v1/my-annotations (mb-server/src/feedback.rs)   *)
(* between the feedback posts of several clients                           *)
(***************************************************************************)
\* A plausible slip: the listing is not restricted to the annotator.
get_annotations_of_anyone(store, annotator_id) ==
    OrderByCreatedAt(store.annotations)

\* SqliteFeedbackStore::get_annotations_by_annotator
get_annotations_by_annotator(store, annotator_id) ==
    LET ByAnnotator(annotation) == annotation.annotator_id = annotator_id
    IN  OrderByCreatedAt(SelectSeq(store.annotations, ByAnnotator))

\* export_to_json and the parse of its text: one object per pair, with the
\* prompt, the chosen and the rejected text (the metadata is left out).
export_to_json(pairs) ==
    [i \in DOMAIN pairs |-> [prompt |-> pairs[i].prompt, chosen |-> pairs[i].chosen,
                             rejected |-> pairs[i].rejected]]

\* str::eq_ignore_ascii_case(format, "dpo"), over the formats of the model.
IsDpoFormat(format) == format \in {"dpo", "DPO"}

\* u32::clamp
Clamp(v, lo, hi) == IF v < lo THEN lo ELSE IF v > hi THEN hi ELSE v

\* The responses of get_my_annotations.
MyError(status) ==
    [status |-> status, kind |-> "feedback_error", items |-> <<>>, page |-> 0,
     per_page |-> 0, total |-> 0]
MyDpo(items) ==
    [status |-> 200, kind |-> "dpo", items |-> items, page |-> 0, per_page |-> 0,
     total |-> 0]

\* get_my_annotations after authentication: the export or one page of the
\* listing.
MyAnnotationsOf(store, annotator_id, query) ==
    IF IsSome(query.format) /\ IsDpoFormat(Unwrap(query.format))
    THEN MyDpo(export_to_json(export_dpo_pairs(store,
                   [NoFilter EXCEPT !.annotator_id = Some(annotator_id)])))
    ELSE
    LET page == Max(IF IsSome(query.page) THEN Unwrap(query.page) ELSE 1, 1)
        per_page == Clamp(IF IsSome(query.per_page) THEN Unwrap(query.per_page)
                          ELSE 50, 1, 100)
        annotations == get_annotations_by_annotator(store, annotator_id)
        total == Len(annotations)
        start == (page - 1) * per_page
    IN  [status |-> 200, kind |-> "list",
         items |-> IF start >= total THEN <<>>
                   ELSE SubSeq(annotations, start + 1,
                               IF start + per_page < total THEN start + per_page
                               ELSE total),
         page |-> page, per_page |-> per_page, total |-> total]

\* get_my_annotations, the Query extractor of its signature included.
get_my_annotations(state, cl, store, headers, query) ==
    IF query.rejected
    THEN [MyError(400) EXCEPT !.kind = "rejection"]
    ELSE IF ~IsSome(state) THEN MyError(500)
    ELSE
    LET api_key == extract_feedback_api_key(headers)
        client_info == IF api_key.ok THEN Validate(cl, api_key.key)
                       ELSE [ok |-> FALSE, info |-> None]
    IN  IF ~api_key.ok THEN MyError(401)
        ELSE IF ~client_info.ok THEN MyError(401)
        ELSE MyAnnotationsOf(store, Unwrap(client_info.info).id, query)

\* The requests of this specification: the key of c1, of c3 or of nobody in
\* x-api-key; a refused and a satisfactory verdict on the assistant turn.
MyHeaders ==
    [x_api_key : {Some(<<97>>), Some(<<98>>), Some(<<99>>)}, authorization : {None}]
MyBodies ==
    [json : {"FeedbackRequest"}, turn_id : {2}, verdict : {"refused", "satisfactory"},
     expected_response : {Some(<<"a">>)}]

\* The queries: one the Query extractor rejects (a page that is no number),
\* and format, page and per_page absent or present.
MyQueries ==
    {[rejected |-> TRUE, format |-> None, page |-> None, per_page |-> None]}
        \cup [rejected : {FALSE}, format : {None, Some("DPO"), Some("json")},
              page : {None, Some(2)}, per_page : {None, Some(0), Some(1)}]

InitMyAnnotations == InitFeedback

\* One GET /v1/my-annotations (the store is read, never written).
GetMyAnnotations ==
    /\ ~myLast.called
    /\ \E headers \in MyHeaders, query \in MyQueries :
          myLast' = [called |-> TRUE, headers |-> headers, query |-> query,
                     store |-> fbStore,
                     response |-> get_my_annotations(feedback, clients, fbStore,
                                                     headers, query)]
    /\ UNCHANGED <<varsEarlier, laterMy>>

NextMyAnnotations ==
    \/ RecordClaSignature
    \/ PostFeedbackOf(MyHeaders, MyBodies)
    \/ GetMyAnnotations

SpecMyAnnotations == InitMyAnnotations /\ [][NextMyAnnotations]_vars

(***************************************************************************)
(* SpecDb: the inserts of SqliteFeedbackStore (mb-feedback/src/store.rs)   *)
(* on a store opened with `PRAGMA foreign_keys = ON`. The store has no     *)
(* statement that deletes a row or changes a key.                          *)
(***************************************************************************)
\* insert_conversation: `id TEXT PRIMARY KEY`.
insert_conversation(store, conv) ==
    IF IsSome(get_conversation_by_id(store, conv.id))
    THEN [ok |-> FALSE, store |-> store]
    ELSE [ok |-> TRUE, store |-> [store EXCEPT !.conversations = Append(@, conv)]]

\* A plausible slip: the store is opened without `PRAGMA foreign_keys = ON`
\* (SQLite's default), and `REFERENCES conversations(id)` is not enforced.
insert_turn_unenforced(store, turn) ==
    IF IsSome(get_turn_by_id(store, turn.id))
    THEN [ok |-> FALSE, store |-> store]
    ELSE [ok |-> TRUE, store |-> [store EXCEPT !.turns = Append(@, turn)]]

\* insert_turn: `id TEXT PRIMARY KEY`,
\* `conversation_id TEXT NOT NULL REFERENCES conversations(id)`.
insert_turn(store, turn) ==
    IF \/ IsSome(get_turn_by_id(store, turn.id))
       \/ ~IsSome(get_conversation_by_id(store, turn.conversation_id))
    THEN [ok |-> FALSE, store |-> store]
    ELSE [ok |-> TRUE, store |-> [store EXCEPT !.turns = Append(@, turn)]]

\* The rows of the calls. (An annotation's id is a fresh UUID.)
DbConversations ==
    [id : {"k1", "k2"}, client_id : {"c1"}, model_id : {"m1"}, created_at : {0}]
DbTurns ==
    [id : 1..MaxDbRows, conversation_id : {"k1", "k2"}, role : {"Assistant"},
     content : {<<1>>}, created_at : {0}]
DbAnnotations ==
    [turn_id : 1..MaxDbRows, annotator_id : {"c1"}, verdict : {"Refused"},
     expected_response : {None}, created_at : {0}]

\* SqliteFeedbackStore::new_in_memory and init.
InitDb ==
    /\ IdleEarlier /\ IdleLaterDb
    /\ feedbackDb = [db |-> EmptyStore,
                     last |-> [op |-> "", conversation_id |-> "", turn_id |-> 0,
                               ok |-> TRUE, before |-> EmptyStore]]

\* The store after an insert, with the call recorded.
DbInserted(op, conversation_id, turn_id, r) ==
    /\ feedbackDb' = [db |-> r.store,
                      last |-> [op |-> op, conversation_id |-> conversation_id,
                                turn_id |-> turn_id, ok |-> r.ok,
                                before |-> feedbackDb.db]]
    /\ UNCHANGED <<varsEarlier, laterDb>>

InsertConversation ==
    \E conv \in DbConversations :
        DbInserted("insert_conversation", conv.id, 0,
                   insert_conversation(feedbackDb.db, conv))

InsertTurn ==
    \E turn \in DbTurns :
        DbInserted("insert_turn", turn.conversation_id, turn.id,
                   insert_turn(feedbackDb.db, turn))

InsertAnnotation ==
    \E ann \in DbAnnotations :
        /\ Len(feedbackDb.db.annotations) < MaxDbRows
        /\ DbInserted("insert_annotation", "", ann.turn_id,
                      insert_annotation(feedbackDb.db, ann))

NextDb == InsertConversation \/ InsertTurn \/ InsertAnnotation

SpecDb == InitDb /\ [][NextDb]_vars

(***************************************************************************)
(* SpecBilling: the usage of parse_response (outbound/openai_chat.rs,      *)
(* outbound/ollama.rs) and step 14 of handle_completion_inner. The usage   *)
(* object of a backend's response holds three optional counts; token       *)
(* counts are u64 and the counts of the bounds are far from u64::MAX.      *)
(***************************************************************************)
NoUsage == [prompt_tokens |-> 0, completion_tokens |-> 0, total_tokens |-> 0]

\* Option::unwrap_or(0)
UnwrapOr0(opt) == IF IsSome(opt) THEN Unwrap(opt) ELSE 0

\* u64::saturating_add
SaturatingAdd(a, b) == a + b

\* OpenAiChatOutboundAdapter::parse_response, the usage: OaiUsageWire has
\* three required fields, which are copied.
OaiParseUsage(wire) ==
    IF wire.prompt = None \/ wire.completion = None \/ wire.total = None
    THEN [ok |-> FALSE, usage |-> NoUsage]
    ELSE [ok |-> TRUE,
          usage |-> [prompt_tokens |-> Unwrap(wire.prompt),
                     completion_tokens |-> Unwrap(wire.completion),
                     total_tokens |-> Unwrap(wire.total)]]

\* OllamaOutboundAdapter::parse_response, the usage: prompt_eval_count and
\* eval_count are optional, and any other field is ignored.
OllamaParseUsage(wire) ==
    LET prompt_tokens == UnwrapOr0(wire.prompt)
        completion_tokens == UnwrapOr0(wire.completion)
    IN  [ok |-> TRUE,
         usage |-> [prompt_tokens |-> prompt_tokens,
                    completion_tokens |-> completion_tokens,
                    total_tokens |-> SaturatingAdd(prompt_tokens, completion_tokens)]]

\* The usage of the outbound adapter of a dialect.
ParseUsage(dialect, wire) ==
    IF dialect = "openai-chat" THEN OaiParseUsage(wire) ELSE OllamaParseUsage(wire)

\* The usage objects of a backend's response (for ollama: prompt_eval_count,
\* eval_count and a field the dialect does not have).
UsageWires ==
    LET Counts == {None} \cup {Some(n) : n \in 0..MaxTokens}
    IN  [prompt : Counts, completion : Counts, total : Counts]

BillingClient == "c1"
BillingPeriod == [year |-> 2025, month |-> 6]

\* tokens_used of the client in the tracker.
TokensUsed(tracker) ==
    IF BillingClient \in DOMAIN tracker THEN tracker[BillingClient].tokens_used ELSE 0

InitBilling ==
    /\ IdleEarlier /\ IdleLaterBilling
    /\ billing = [tracker |-> QuotaTrackerNew, called |-> FALSE, ok |-> FALSE,
                  dialect |-> "", wire |-> [prompt |-> None, completion |-> None,
                                            total |-> None],
                  usage |-> NoUsage, used_before |-> 0]

\* Steps 13 and 14 for a client with a monthly limit: the response of the
\* backend is parsed and its total_tokens are recorded.
ParseAndRecord ==
    \E dialect \in {"openai-chat", "ollama"}, wire \in UsageWires :
        LET parsed == ParseUsage(dialect, wire)
            tracker == IF parsed.ok
                       THEN QuotaRecord(billing.tracker, BillingClient,
                                        parsed.usage.total_tokens, BillingPeriod)
                       ELSE billing.tracker
        IN  /\ TokensUsed(tracker) <= MaxUsed
            /\ billing' = [tracker |-> tracker, called |-> TRUE, ok |-> parsed.ok,
                           dialect |-> dialect, wire |-> wire,
                           usage |-> parsed.usage,
                           used_before |-> TokensUsed(billing.tracker)]
            /\ UNCHANGED <<varsEarlier, laterBilling>>

NextBilling == ParseAndRecord

SpecBilling == InitBilling /\ [][NextBilling]_vars

(***************************************************************************)
(* SpecPrefix: compute_prefix_hash (mb-core/src/core_domain/cache_router.rs)*)
(* on messages with text and image parts. A string is a sequence of        *)
(* characters; the hasher's state is the sequence of bytes written to it   *)
(* (`str::hash` writes the bytes of the string and the byte 0xFF), and     *)
(* DefaultHasher::new() has fixed keys, so `finish` is a function of it.   *)
(***************************************************************************)
\* MessageContent::Text and MessageContent::Parts; ContentPart::Text and
\* ContentPart::ImageUrl.
TextContent(s) == [kind |-> "Text", text |-> s, parts |-> <<>>]
PartsContent(parts) == [kind |-> "Parts", text |-> <<>>, parts |-> parts]
TextPart(s) == [type |-> "text", text |-> s]
ImagePart == [type |-> "image_url", text |-> <<>>]

\* <str as Hash>::hash
HashStr(s, hasher) == hasher \o s \o <<"0xFF">>

\* A plausible slip: an image part is hashed too.
RECURSIVE HashPartsWithImages(_, _)
HashPartsWithImages(parts, hasher) ==
    IF parts = <<>> THEN hasher
    ELSE HashPartsWithImages(Tail(parts),
                             IF Head(parts).type = "text"
                             THEN HashStr(Head(parts).text, hasher)
                             ELSE HashStr(<<"url">>, hasher))

\* The loop of hash_message_content over the parts: text parts are hashed.
RECURSIVE HashParts(_, _)
HashParts(parts, hasher) ==
    IF parts = <<>> THEN hasher
    ELSE HashParts(Tail(parts),
                   IF Head(parts).type = "text"
                   THEN HashStr(Head(parts).text, hasher) ELSE hasher)

hash_message_content(content, hasher) ==
    IF content.kind = "Text" THEN HashStr(content.text, hasher)
    ELSE HashParts(content.parts, hasher)

\* The loop of compute_prefix_hash from message i on.
RECURSIVE PrefixLoop(_, _, _, _, _)
PrefixLoop(messages, prefix_depth, i, count, hasher) ==
    IF i > Len(messages) \/ count >= prefix_depth THEN hasher
    ELSE IF messages[i].role \notin {"system", "user"}
    THEN PrefixLoop(messages, prefix_depth, i + 1, count, hasher)
    ELSE PrefixLoop(messages, prefix_depth, i + 1, count + 1,
                    hash_message_content(messages[i].content, hasher))

compute_prefix_hash(messages, prefix_depth) ==
    PrefixLoop(messages, prefix_depth, 1, 0, <<>>)

\* The contents and the roles of the messages of the calls.
PrefixTexts == {<<"a">>, <<"a", "b">>}
PrefixContentsOf ==
    {TextContent(s) : s \in PrefixTexts}
        \cup {PartsContent(<<TextPart(<<"a">>), TextPart(<<"b">>)>>),
              PartsContent(<<ImagePart>>)}
PrefixRoles == {"system", "user", "assistant", "tool"}

InitPrefix ==
    /\ IdleEarlier /\ IdleLaterPrefix
    /\ \E role \in {"user", "assistant"}, content \in PrefixContentsOf,
          depth \in 0..MaxDepth :
          prefixPair = [a |-> <<[role |-> role, content |-> content]>>,
                        b |-> <<[role |-> role, content |-> content]>>,
                        depth |-> depth, hashed |-> FALSE,
                        hash_a |-> <<>>, hash_b |-> <<>>]

\* The same message is put at the end of both lists.
PrefixAppendBoth ==
    /\ ~prefixPair.hashed
    /\ Len(prefixPair.a) < MaxMessages - 1 /\ Len(prefixPair.b) < MaxMessages
    /\ \E role \in {"system", "user"}, s \in PrefixTexts :
          prefixPair' = [prefixPair EXCEPT
                            !.a = Append(@, [role |-> role, content |-> TextContent(s)]),
                            !.b = Append(@, [role |-> role, content |-> TextContent(s)])]
    /\ UNCHANGED <<varsEarlier, laterPrefix>>

\* A message is put into the second list at any place.
PrefixInsert ==
    /\ ~prefixPair.hashed
    /\ Len(prefixPair.b) < MaxMessages
    /\ \E k \in 0..Len(prefixPair.b), role \in PrefixRoles :
          prefixPair' = [prefixPair EXCEPT
                            !.b = SubSeq(@, 1, k)
                                    \o <<[role |-> role, content |-> TextContent(<<"a">>)]>>
                                    \o SubSeq(@, k + 1, Len(@))]
    /\ UNCHANGED <<varsEarlier, laterPrefix>>

\* An image part is added to a message of the second list.
PrefixAddImage ==
    /\ ~prefixPair.hashed
    /\ \E k \in DOMAIN prefixPair.b :
          LET content == prefixPair.b[k].content
              parts == IF content.kind = "Text" THEN <<TextPart(content.text)>>
                       ELSE content.parts
          IN  /\ Len(parts) < 3
              /\ \A p \in DOMAIN parts : parts[p].type = "text"
              /\ prefixPair' = [prefixPair EXCEPT
                                   !.b[k].content = PartsContent(Append(parts, ImagePart))]
    /\ UNCHANGED <<varsEarlier, laterPrefix>>

\* compute_prefix_hash is called on both lists.
PrefixHashBoth ==
    /\ ~prefixPair.hashed
    /\ prefixPair' = [prefixPair EXCEPT
                         !.hashed = TRUE,
                         !.hash_a = compute_prefix_hash(prefixPair.a, prefixPair.depth),
                         !.hash_b = compute_prefix_hash(prefixPair.b, prefixPair.depth)]
    /\ UNCHANGED <<varsEarlier, laterPrefix>>

NextPrefix == PrefixAppendBoth \/ PrefixInsert \/ PrefixAddImage \/ PrefixHashBoth

SpecPrefix == InitPrefix /\ [][NextPrefix]_vars

(***************************************************************************)
(* SpecShared: the shared backend-state map under its RwLock. The probe    *)
(* loop (mb-server/src/health.rs) takes the write lock, removes the entry  *)
(* of the backend it probed and inserts the updated entry; the router      *)
(* snapshot of a chat request (handler.rs step 9) and GET /health take the *)
(* read lock and collect the values of the map.                            *)
(***************************************************************************)
\* RwLock::write is granted when nobody holds the lock. A plausible slip: it
\* is granted while readers hold it.
RwLockWriteAmongReaders(lock) == ~lock.writer

\* RwLock::write is granted when nobody holds the lock.
RwLockWrite(lock) == ~lock.writer /\ lock.readers = 0

\* RwLock::read is granted when no writer holds the lock.
RwLockRead(lock) == ~lock.writer

\* The tasks that read the map.
MapReaders == {"router", "health"}

InitShared ==
    /\ IdleEarlier /\ IdleLaterShared
    /\ \E unhealthy_threshold \in 1..MaxThreshold :
          shared_states =
              [map |-> HealthCheckManagerNew,
               lock |-> [writer |-> FALSE, readers |-> 0],
               unhealthy_threshold |-> unhealthy_threshold,
               loop |-> [pc |-> "probe", index |-> 1, result |-> ProbeErr,
                         state |-> None],
               readers |-> [who \in MapReaders |-> [pc |-> "idle", seen |-> None]]]

\* `probe.probe(backend).await` returns; the lock is not held meanwhile.
SharedProbe ==
    /\ shared_states.loop.pc = "probe"
    /\ \E result \in {ProbeErr, ProbeOk(0)} :
          /\ result.ok \/
                shared_states.map[Backends[shared_states.loop.index].id]
                    .consecutive_failures < MaxFailures
          /\ shared_states' = [shared_states EXCEPT !.loop.pc = "write",
                                                    !.loop.result = result]
    /\ UNCHANGED <<varsEarlier, laterShared>>

\* `states.write().await` is granted.
SharedWrite ==
    /\ shared_states.loop.pc = "write"
    /\ RwLockWrite(shared_states.lock)
    /\ shared_states' = [shared_states EXCEPT !.loop.pc = "remove",
                                              !.lock.writer = TRUE]
    /\ UNCHANGED <<varsEarlier, laterShared>>

\* `map.remove(&backend.id)`: the entry leaves the map.
SharedRemove ==
    /\ shared_states.loop.pc = "remove"
    /\ LET id == Backends[shared_states.loop.index].id
       IN  shared_states' =
               [shared_states EXCEPT
                   !.loop.pc = "insert",
                   !.loop.state = IF id \in DOMAIN shared_states.map
                                  THEN Some(shared_states.map[id]) ELSE None,
                   !.map = [k \in DOMAIN shared_states.map \ {id} |->
                               shared_states.map[k]]]
    /\ UNCHANGED <<varsEarlier, laterShared>>

\* `map.insert(backend.id.clone(), updated)` when an entry was removed; the
\* guard is dropped at the end of the loop body and the loop moves on.
SharedInsert ==
    /\ shared_states.loop.pc = "insert"
    /\ LET id == Backends[shared_states.loop.index].id
           removed == shared_states.loop.state
           updated == ProbeUpdate(Unwrap(removed), shared_states.loop.result,
                                  shared_states.unhealthy_threshold, 1)
       IN  shared_states' =
               [shared_states EXCEPT
                   !.map = IF removed = None THEN shared_states.map
                           ELSE [k \in DOMAIN shared_states.map \cup {id} |->
                                    IF k = id THEN updated
                                    ELSE shared_states.map[k]],
                   !.lock.writer = FALSE,
                   !.loop = [pc |-> "probe",
                             index |-> IF shared_states.loop.index = Len(Backends)
                                       THEN 1 ELSE shared_states.loop.index + 1,
                             result |-> ProbeErr, state |-> None]]
    /\ UNCHANGED <<varsEarlier, laterShared>>

\* `backend_states.read().await` is granted to a reader.
SharedRead(who) ==
    /\ shared_states.readers[who].pc = "idle"
    /\ RwLockRead(shared_states.lock)
    /\ shared_states' =
           [shared_states EXCEPT
               !.readers[who] = [pc |-> "read", seen |-> None],
               !.lock.readers = shared_states.lock.readers + 1]
    /\ UNCHANGED <<varsEarlier, laterShared>>

\* `values().cloned().collect()` of step 9, `values().map(..)` of /health.
SharedCollect(who) ==
    /\ shared_states.readers[who].pc = "read"
    /\ shared_states' =
           [shared_states EXCEPT
               !.readers[who] = [pc |-> "collected",
                                 seen |-> Some(shared_states.map)]]
    /\ UNCHANGED <<varsEarlier, laterShared>>

\* The read guard is dropped.
SharedDrop(who) ==
    /\ shared_states.readers[who].pc = "collected"
    /\ shared_states' =
           [shared_states EXCEPT
               !.readers[who] = [pc |-> "idle", seen |-> None],
               !.lock.readers = shared_states.lock.readers - 1]
    /\ UNCHANGED <<varsEarlier, laterShared>>

NextShared ==
    \/ SharedProbe \/ SharedWrite \/ SharedRemove \/ SharedInsert
    \/ \E who \in MapReaders :
          SharedRead(who) \/ SharedCollect(who) \/ SharedDrop(who)

SpecShared == InitShared /\ [][NextShared]_vars

(***************************************************************************)
(* SpecLoad: the load of the backends of a running gateway. The states are *)
(* built by HealthCheckManager::new from backends with any max_concurrent  *)
(* (the configuration does not validate it), the probe loop updates them,  *)
(* and step 9 of a request routes over a snapshot of them with the         *)
(* LeastLoaded strategy. Neither calls with_request_started or             *)
(* with_request_completed.                                                 *)
(***************************************************************************)
NoRouting ==
    [called |-> FALSE, model |-> "", hint |-> None, snapshot |-> <<>>,
     result |-> [ok |-> FALSE, err |-> "", id |-> ""]]

InitLoad ==
    /\ IdleEarlier /\ IdleLaterLoad
    /\ \E max_concurrent \in [BackendIds -> 0..MaxConc] :
          load = [states |-> [id \in BackendIds |->
                                 BackendStateNew(id, HealthCheckManagerNew[id].models,
                                                 max_concurrent[id])],
                  last |-> NoRouting]

\* One pass of the probe loop's body for one backend. The states are followed
\* up to the request whose routing is looked at.
LoadProbe ==
    \E id \in BackendIds, result \in {ProbeErr, ProbeOk(0), ProbeOk(1)} :
        /\ ~load.last.called
        /\ result.ok \/ load.states[id].consecutive_failures < MaxFailures
        /\ load' = [load EXCEPT
                       !.states[id] = ProbeUpdate(load.states[id], result, 2, 1)]
        /\ UNCHANGED <<varsEarlier, laterLoad>>

\* Step 9 of a request: the snapshot in the value order of the map, and
\* select_backend with the LeastLoaded strategy.
LoadRoute ==
    \E model \in Models, order \in ValueOrders, round \in 0..MaxRound,
       hint \in {None} \cup {Some(id) : id \in BackendIds} :
        LET states_vec == [k \in DOMAIN order |-> load.states[order[k]]]
        IN  /\ ~load.last.called
            /\ load' = [load EXCEPT
                           !.last = [called |-> TRUE, model |-> model,
                                     hint |-> hint, snapshot |-> states_vec,
                                     result |-> SelectBackend(states_vec, model,
                                                   "LeastLoaded", round, hint)]]
            /\ UNCHANGED <<varsEarlier, laterLoad>>

NextLoad == LoadProbe \/ LoadRoute

SpecLoad == InitLoad /\ [][NextLoad]_vars

(***************************************************************************)
(* SpecChats: record_chat_turns (mb-server/src/feedback.rs) for chat       *)
(* requests served at once. Each call reads the clock once and then makes  *)
(* three calls of the store, each under the connection's mutex on its own: *)
(* insert_conversation, insert_turn for the user turn, insert_turn for the *)
(* assistant turn. The calls of different requests interleave.             *)
(***************************************************************************)
\* Uuid::new_v4() of the i-th call: an id no other call has.
FreshUuid(i) == CASE i = 1 -> "u1" [] i = 2 -> "u2" [] i = 3 -> "u3" [] OTHER -> "u4"

\* extract_conversation_id: the X-Conversation-Id header when it is a UUID,
\* else a fresh UUID.
extract_conversation_id(header, i) ==
    IF IsSome(header) THEN Unwrap(header) ELSE FreshUuid(i)

\* The model of the i-th request.
ChatModel(i) == IF i = 1 THEN "m1" ELSE "m2"

\* The last user message of the i-th request and the assistant message of
\* its response.
UserContent(i) == <<i>>
AssistantContent(i) == <<10 + i>>

\* The ids of the two turns of the i-th call (fresh UUIDs).
UserTurnId(i) == 2 * i - 1
AssistantTurnId(i) == 2 * i

\* A plausible slip: a failed insert_conversation ends the recording.
AfterConversationStrict(inserted) == IF inserted.ok THEN "user" ELSE "done"

\* The position after insert_conversation: its error is logged, the
\* recording goes on.
AfterConversation(inserted) == "user"

NoCall ==
    [pc |-> "idle", conversation_id |-> "", now |-> 0, existing |-> None,
     conversation_ok |-> FALSE, user_ok |-> FALSE, assistant_ok |-> FALSE,
     response |-> 0]

InitChats ==
    /\ IdleEarlier /\ IdleLaterChats
    /\ chats = [store |-> EmptyStore, calls |-> [i \in 1..MaxChats |-> NoCall]]

\* The handler reaches record_chat_turns with the 200 response of step 13 in
\* hand. Without a user message or an assistant message nothing is stored;
\* else the closure starts and reads the clock.
ChatStart(i) ==
    /\ chats.calls[i].pc = "idle"
    /\ \E recordable \in BOOLEAN, header \in {None, Some("k1")}, now \in 0..MaxStamp :
          chats' = [chats EXCEPT
                       !.calls[i] =
                           [NoCall EXCEPT
                               !.pc = IF recordable THEN "conversation" ELSE "done",
                               !.conversation_id = extract_conversation_id(header, i),
                               !.now = now,
                               !.response = 200]]
    /\ UNCHANGED <<varsEarlier, laterChats>>

\* store.insert_conversation(&conversation)
ChatConversation(i) ==
    /\ chats.calls[i].pc = "conversation"
    /\ LET call == chats.calls[i]
           inserted == insert_conversation(chats.store,
                           [id |-> call.conversation_id, client_id |-> "c1",
                            model_id |-> ChatModel(i), created_at |-> call.now])
       IN  chats' = [chats EXCEPT
                        !.store = inserted.store,
                        !.calls[i].existing =
                            get_conversation_by_id(chats.store, call.conversation_id),
                        !.calls[i].conversation_ok = inserted.ok,
                        !.calls[i].pc = AfterConversation(inserted)]
    /\ UNCHANGED <<varsEarlier, laterChats>>

\* store.insert_turn(&user_turn)
ChatUserTurn(i) ==
    /\ chats.calls[i].pc = "user"
    /\ LET call == chats.calls[i]
           inserted == insert_turn(chats.store,
                           [id |-> UserTurnId(i),
                            conversation_id |-> call.conversation_id,
                            role |-> "User", content |-> UserContent(i),
                            created_at |-> call.now])
       IN  chats' = [chats EXCEPT !.store = inserted.store,
                                  !.calls[i].user_ok = inserted.ok,
                                  !.calls[i].pc = "assistant"]
    /\ UNCHANGED <<varsEarlier, laterChats>>

\* store.insert_turn(&assistant_turn); the handler returns its response.
ChatAssistantTurn(i) ==
    /\ chats.calls[i].pc = "assistant"
    /\ LET call == chats.calls[i]
           inserted == insert_turn(chats.store,
                           [id |-> AssistantTurnId(i),
                            conversation_id |-> call.conversation_id,
                            role |-> "Assistant", content |-> AssistantContent(i),
                            created_at |-> call.now])
       IN  chats' = [chats EXCEPT !.store = inserted.store,
                                  !.calls[i].assistant_ok = inserted.ok,
                                  !.calls[i].pc = "done"]
    /\ UNCHANGED <<varsEarlier, laterChats>>

NextChats ==
    \E i \in 1..MaxChats :
        ChatStart(i) \/ ChatConversation(i) \/ ChatUserTurn(i) \/ ChatAssistantTurn(i)

SpecChats == InitChats /\ [][NextChats]_vars

(***************************************************************************)
(* SpecMonth: current_year_month (mb-server/src/handler.rs) over a system  *)
(* time that moves forward. A time is a number of whole days since the     *)
(* epoch and the seconds of the day, so that `secs / 86400` is the days.   *)
(***************************************************************************)
\* u64::min
Min(a, b) == IF a <= b THEN a ELSE b

\* A plausible slip: the month is not clamped.
current_year_month_unclamped(time) ==
    LET days == time.days
    IN  [year |-> (1970 + ((days \div 365) % 65536)) % 65536,
         month |-> (days % 365) \div 30 + 1]

\* current_year_month: `(days / 365) as u16` truncates to 16 bits and the
\* sum with 1970 is taken in 16 bits.
current_year_month(time) ==
    LET days == time.days
    IN  [year |-> (1970 + ((days \div 365) % 65536)) % 65536,
         month |-> Min((days % 365) \div 30 + 1, 12)]

\* The last day whose year fits in 16 bits: 1970 + days / 365 = 65535.
LastDayOfU16 == (65535 - 1970 + 1) * 365 - 1

\* The time `step` seconds after `time`.
TimeAfter(time, step) ==
    [days |-> time.days + step.days + (time.secs + step.secs) \div 86400,
     secs |-> (time.secs + step.secs) % 86400]

\* A second, a day less a second, a day, 30 days, 360 days.
ClockSteps ==
    {[days |-> 0, secs |-> 1], [days |-> 0, secs |-> 86399],
     [days |-> 1, secs |-> 0], [days |-> 30, secs |-> 0], [days |-> 360, secs |-> 0]}

\* The first reading: at the epoch, or in the last year that fits in 16 bits.
InitMonth ==
    /\ IdleEarlier /\ IdleLaterMonth
    /\ \E days \in {0, LastDayOfU16 - 364} :
          LET time == [days |-> days, secs |-> 0]
          IN  month_clock = [time |-> time, period |-> current_year_month(time),
                             earlier |-> current_year_month(time), readings |-> 1]

\* The next reading, some time later.
ReadLater ==
    /\ month_clock.readings < MaxReadings
    /\ \E step \in ClockSteps :
          LET time == TimeAfter(month_clock.time, step)
          IN  month_clock' = [time |-> time, period |-> current_year_month(time),
                              earlier |-> month_clock.period,
                              readings |-> month_clock.readings + 1]
    /\ UNCHANGED <<varsEarlier, laterMonth>>

NextMonth == ReadLater

SpecMonth == InitMonth /\ [][NextMonth]_vars

(***************************************************************************)
(* SpecSticky: steps 8 to 15 of handle_completion_inner for buffered       *)
(* requests with cache-aware routing on, beside the probe loop. A request  *)
(* takes its affinity hint (step 8) and later its snapshot (step 9); other *)
(* requests and probes come between the two.                               *)
(***************************************************************************)
StickyKeys == {<<model, prefix>> : model \in Models, prefix \in GatewayPrefixes}

NoPending == [at |-> "idle", model |-> "", prefix |-> <<>>, hint |-> None,
              entry |-> None]

NoSticky == [called |-> FALSE, model |-> "", prefix |-> <<>>, hint |-> None,
             snapshot |-> <<>>, round |-> 0,
             result |-> [ok |-> FALSE, err |-> "", id |-> ""],
             answered |-> FALSE]

\* Every backend has answered a first probe, which found it Healthy or
\* Degraded. The map holds one entry, so
\* that a request of another model evicts the entry of the first.
InitSticky ==
    /\ IdleEarlier /\ IdleLaterSticky
    /\ \E strategy \in Strategies, max_entries \in {1},
          latency \in [BackendIds -> {0, 1}] :
          sticky = [states |-> [id \in BackendIds |->
                                   ProbeUpdate(HealthCheckManagerNew[id],
                                               ProbeOk(latency[id]), 1, 1)],
                    strategy |-> strategy,
                    affinity |-> CacheAffinityMapNew(max_entries),
                    round_counter |-> 0,
                    succeeded |-> [key \in StickyKeys |-> ""],
                    pending |-> [i \in 1..MaxSticky |-> NoPending],
                    last |-> NoSticky]

\* One pass of the probe loop's body for one backend, while a request is yet
\* to be routed.
StickyProbe ==
    \E id \in BackendIds, result \in {ProbeErr, ProbeOk(0)} :
        /\ \E i \in 1..MaxSticky : sticky.pending[i].at # "done"
        /\ result.ok \/ sticky.states[id].consecutive_failures < 1
        /\ sticky' = [sticky EXCEPT
                         !.states[id] = ProbeUpdate(sticky.states[id], result, 1, 1)]
        /\ UNCHANGED <<varsEarlier, laterSticky>>

\* Step 8 of the i-th request to arrive: the affinity hint for its model and
\* prefix.
StickyHint(i) ==
    /\ sticky.pending[i].at = "idle"
    /\ i > 1 => sticky.pending[i - 1].at # "idle"
    /\ \E model \in Models, prefix \in GatewayPrefixes :
          LET key == <<model, prefix>>
              g == AffinityGet(sticky.affinity, model, prefix)
          IN  sticky' = [sticky EXCEPT
                  !.affinity = g.map,
                  !.pending[i] =
                      [at |-> "hinted", model |-> model, prefix |-> prefix,
                       hint |-> g.result,
                       entry |-> IF key \in DOMAIN sticky.affinity.entries
                                 THEN Some(sticky.affinity.entries[key].backend)
                                 ELSE None]]
    /\ UNCHANGED <<varsEarlier, laterSticky>>

\* Steps 9 to 15 of the i-th request: the snapshot in the value order of the
\* map, select_backend, the backend's answer and, for an answer that parses,
\* the affinity record.
StickyRoute(i) ==
    /\ sticky.pending[i].at = "hinted"
    /\ \E order \in ValueOrders, answered \in BOOLEAN :
          LET p == sticky.pending[i]
              states_vec == [k \in DOMAIN order |-> sticky.states[order[k]]]
              selected == SelectBackend(states_vec, p.model, sticky.strategy,
                                        sticky.round_counter, p.hint)
              recorded == selected.ok /\ answered
          IN  sticky' = [sticky EXCEPT
                  !.round_counter = sticky.round_counter + 1,
                  !.affinity = IF recorded
                               THEN AffinityRecord(sticky.affinity, p.model,
                                                   p.prefix, selected.id)
                               ELSE sticky.affinity,
                  !.succeeded = IF recorded
                                THEN [sticky.succeeded EXCEPT
                                         ![<<p.model, p.prefix>>] = selected.id]
                                ELSE sticky.succeeded,
                  !.pending[i] = [NoPending EXCEPT !.at = "done"],
                  !.last = [called |-> TRUE, model |-> p.model, prefix |-> p.prefix,
                            hint |-> p.hint, snapshot |-> states_vec,
                            round |-> sticky.round_counter,
                            result |-> selected, answered |-> answered]]
    /\ UNCHANGED <<varsEarlier, laterSticky>>

NextSticky ==
    \/ StickyProbe
    \/ \E i \in 1..MaxSticky : StickyHint(i) \/ StickyRoute(i)

SpecSticky == InitSticky /\ [][NextSticky]_vars

(***************************************************************************)
(* SpecGate: step 5 of handle_completion_inner and handle_stream_inner     *)
(* under concurrent requests of one client. Each request reads now_ms()    *)
(* and then waits for the write lock of rate_limiters; under the lock it   *)
(* looks its limiter up, or inserts it, and calls check with the value it  *)
(* read. The runtime is multi-threaded, so the order in which requests     *)
(* take the lock is not the order in which they read the clock.            *)
(***************************************************************************)
GateClient == "c1"
GateRateLimits == [c \in {GateClient} |-> GateRpm]
GateHandlers == {"handle_completion_inner", "handle_stream_inner"}

\* The values SystemTime::now() takes over the behaviour.
GateClockValues ==
    {k * RateWindowMs + d : k \in 0..MaxGateWindows, d \in 0..MaxGateOffset}

InitGate ==
    /\ gateClock = 0
    /\ gateLimiters = [c \in {} |-> RateLimiterNew(RateWindowMs, DefaultRpm)]
    /\ gateReqs = [i \in 1..MaxGateRequests |-> GateStart]
    /\ IdleExcept("Gate")

gateConst == <<varsRL, varsAuth, varsQuota, varsRouter, varsAff, varsHealth, varsPipe,
               varsStream, varsExport, varsFeedback, varsErrors, varsLater>>

\* `let now_ms = now_ms();` of either handler. Requests are numbered in
\* the order they read the clock.
GateReadClock(i) ==
    /\ gateReqs[i].pc = "start"
    /\ IF i = 1 THEN TRUE ELSE gateReqs[i - 1].pc # "start"
    /\ \E h \in GateHandlers :
          gateReqs' = [gateReqs EXCEPT ![i] =
              [pc |-> "read", handler |-> h, now_ms |-> gateClock, ok |-> FALSE]]
    /\ UNCHANGED <<gateClock, gateLimiters, gateConst>>

\* `rate_limiters.write().await` is granted: entry/or_insert_with and check
\* run under the lock, and the block ends.
GateCheck(i) ==
    /\ gateReqs[i].pc = "read"
    /\ LET r == RateLimitStep(gateLimiters, GateRateLimits, GateClient,
                              gateReqs[i].now_ms)
       IN  /\ gateLimiters' = r.limiters
           /\ gateReqs' = [gateReqs EXCEPT ![i].pc = "done", ![i].ok = r.ok]
    /\ UNCHANGED <<gateClock, gateConst>>

\* Time passes.
GateTick ==
    /\ \E t \in GateClockValues : t > gateClock /\ gateClock' = t
    /\ UNCHANGED <<gateLimiters, gateReqs, gateConst>>

NextGate ==
    \/ \E i \in 1..MaxGateRequests : GateReadClock(i)
    \/ \E i \in 1..MaxGateRequests : GateCheck(i)
    \/ GateTick

SpecGate == InitGate /\ [][NextGate]_vars

(***************************************************************************)
(* SseLineParser (mb-server/src/outbound/streaming.rs) and the stream      *)
(* functions of the adapters. Text is a sequence of characters; the        *)
(* six-character field prefix "data: ", the literal "[DONE]" and a JSON    *)
(* object are each one character of the model:                             *)
(*   "T"  a JSON stream chunk whose one choice has a text delta            *)
(*   "F"  a JSON stream chunk whose one choice has finish_reason "stop"    *)
(*   "x"  text that is not JSON                                            *)
(***************************************************************************)
Chars == {"\n", "\r", ":", "data: ", "[DONE]", "T", "F", "x"}

\* str::find('\n'): the position of the first newline, 0 for None.
FindNewline(buffer) ==
    IF \E i \in DOMAIN buffer : buffer[i] = "\n"
    THEN CHOOSE i \in DOMAIN buffer :
            buffer[i] = "\n" /\ \A j \in 1..(i - 1) : buffer[j] # "\n"
    ELSE 0

\* str::trim_end_matches('\r')
RECURSIVE TrimEndCr(_)
TrimEndCr(s) ==
    IF s # <<>> /\ s[Len(s)] = "\r" THEN TrimEndCr(SubSeq(s, 1, Len(s) - 1)) ELSE s

\* str::trim, over the whitespace of the model ('\r' and '\n').
RECURSIVE TrimStart(_)
TrimStart(s) ==
    IF s # <<>> /\ Head(s) \in {"\r", "\n"} THEN TrimStart(Tail(s)) ELSE s
RECURSIVE TrimEnd(_)
TrimEnd(s) ==
    IF s # <<>> /\ s[Len(s)] \in {"\r", "\n"}
    THEN TrimEnd(SubSeq(s, 1, Len(s) - 1)) ELSE s
Trim(s) == TrimEnd(TrimStart(s))

\* take_next_data_line: the line returned, if any, and the buffer afterwards.
RECURSIVE take_next_data_line(_)
take_next_data_line(buffer) ==
    LET newline_pos == FindNewline(buffer)
        line == TrimEndCr(SubSeq(buffer, 1, newline_pos - 1))
        rest == SubSeq(buffer, newline_pos + 1, Len(buffer))
    IN  IF newline_pos = 0 THEN [line |-> None, buffer |-> buffer]
        ELSE IF line = <<>> \/ Head(line) = ":" THEN take_next_data_line(rest)
        ELSE IF Head(line) = "data: " THEN [line |-> Some(Tail(line)), buffer |-> rest]
        ELSE [line |-> Some(line), buffer |-> rest]

\* CanonicalStreamChunk with one choice of index 0.
StreamChunk(delta) == [choices |-> <<[index |-> 0, delta |-> delta]>>]

\* serde_json::from_str::<OaiStreamWire>, which skips surrounding whitespace,
\* followed by the mapping of the choices.
ParseStreamJson(data) ==
    LET json == Trim(data)
    IN  IF json = <<"T">> THEN [ok |-> TRUE, chunk |-> Some(StreamChunk("Text"))]
        ELSE IF json = <<"F">> THEN [ok |-> TRUE, chunk |-> Some(StreamChunk("Finish"))]
        ELSE [ok |-> FALSE, chunk |-> None]

\* OpenAiChatOutbound::parse_stream_line: Result<Option<CanonicalStreamChunk>>.
ParseStreamLine(line) ==
    LET trimmed == Trim(line)
        data == IF trimmed # <<>> /\ Head(trimmed) = "data: " THEN Tail(trimmed)
                ELSE trimmed
    IN  IF trimmed = <<>> THEN [ok |-> TRUE, chunk |-> None]
        ELSE IF data = <<"[DONE]">> THEN [ok |-> TRUE, chunk |-> None]
        ELSE ParseStreamJson(data)

\* serde_json::to_string of the OaiStreamChunk made from the chunk's choices.
StreamJson(chunk) == [c \in DOMAIN chunk.choices |-> chunk.choices[c].delta]

\* OpenAiChatInbound::format_stream_chunk: Result<Option<String>>, never Err.
FormatStreamChunk(chunk) ==
    IF chunk.choices = <<>> THEN None
    ELSE Some(<<"data: ">> \o StreamJson(chunk) \o <<"\n", "\n">>)

\* OpenAiChatInbound::done_sentinel
DoneSentinel == <<"data: ", "[DONE]">>

\* axum::response::sse::Event::default().data(text)
Event(text) == [data |-> text]

(***************************************************************************)
(* SpecStream: make_event_stream over an SseLineParser over the backend's  *)
(* response byte stream. The backend speaks the openai-chat dialect; the   *)
(* client reads the response to its end.                                   *)
(***************************************************************************)
StreamModel == "m1"
StreamBackend == "b1"
StreamPrefix == <<4>>

\* All the byte chunks the backend may send at once.
ByteChunks == UNION {[1..k -> Chars] : k \in 1..MaxChunkLen}

InitStream ==
    /\ IdleRL /\ IdleAuth /\ IdleQuota /\ IdleRouter /\ IdleHealth /\ IdlePipe
    /\ IdleGate /\ IdleExport /\ IdleFeedback /\ IdleErrors /\ IdleLater
    /\ affinity = CacheAffinityMapNew(1)
    /\ affLast = NoAffCall
    /\ upstream = [received |-> <<>>, end |-> "open"]
    /\ sseBuffer = <<>>
    /\ \E enabled \in BOOLEAN :
          stream = [pc |-> "lines", finished |-> FALSE, cache_enabled |-> enabled,
                    prefix_hash |-> IF enabled THEN Some(StreamPrefix) ELSE None]
    /\ yielded = <<>>
    /\ events = <<>>

streamConst == <<varsRL, varsAuth, varsQuota, varsRouter, affLast, varsHealth,
                 varsPipe, varsGate, varsExport, varsFeedback, varsErrors,
                 varsLater>>

\* A plausible slip: a line the outbound adapter cannot parse is passed on
\* to the client as it is.
LoopBodyEchoing(line, evs, fin) ==
    LET parsed == ParseStreamLine(line)
        chunk == Unwrap(parsed.chunk)
        payload == FormatStreamChunk(chunk)
    IN  IF ~parsed.ok THEN [events |-> Append(evs, Event(line)), finished |-> fin]
        ELSE IF parsed.chunk = None THEN [events |-> evs, finished |-> fin]
        ELSE [events |-> IF IsSome(payload) THEN Append(evs, Event(Unwrap(payload)))
                         ELSE evs,
              finished |-> fin \/ \E c \in DOMAIN chunk.choices :
                                     chunk.choices[c].delta = "Finish"]

\* The body of the `while let` loop for one line: the events afterwards and
\* the `finished` flag.
LoopBody(line, evs, fin) ==
    LET parsed == ParseStreamLine(line)
        chunk == Unwrap(parsed.chunk)
        payload == FormatStreamChunk(chunk)
    IN  IF ~parsed.ok \/ parsed.chunk = None
        THEN [events |-> evs, finished |-> fin]
        ELSE [events |-> IF IsSome(payload) THEN Append(evs, Event(Unwrap(payload)))
                         ELSE evs,
              finished |-> fin \/ \E c \in DOMAIN chunk.choices :
                                     chunk.choices[c].delta = "Finish"]

\* The loop receives Ok(line) and runs its body.
Received(line, rest) ==
    LET body == LoopBody(line, events, stream.finished)
    IN  /\ sseBuffer' = rest
        /\ yielded' = Append(yielded, line)
        /\ events' = body.events
        /\ stream' = [stream EXCEPT !.finished = body.finished]

\* The loop is over: the done sentinel is yielded.
LoopExit ==
    /\ events' = Append(events, Event(DoneSentinel))
    /\ stream' = [stream EXCEPT !.pc = "record"]
    /\ UNCHANGED yielded

\* poll_next finds a complete line in the buffer.
StreamLine ==
    /\ stream.pc = "lines"
    /\ LET next == take_next_data_line(sseBuffer)
       IN  /\ IsSome(next.line)
           /\ Received(Unwrap(next.line), next.buffer)
    /\ UNCHANGED <<upstream, affinity, streamConst>>

\* poll_next finds no complete line and the byte stream yields a chunk.
UpstreamBytes ==
    /\ stream.pc = "lines"
    /\ upstream.end = "open"
    /\ LET next == take_next_data_line(sseBuffer)
       IN  /\ next.line = None
           /\ \E bytes \in ByteChunks :
                /\ Len(upstream.received) + Len(bytes) <= MaxReceived
                /\ upstream' = [upstream EXCEPT !.received = @ \o bytes]
                /\ sseBuffer' = next.buffer \o bytes
    /\ UNCHANGED <<stream, yielded, events, affinity, streamConst>>

\* poll_next finds no complete line and the byte stream yields an error:
\* `Err(_) => break`, and the code after the loop runs.
UpstreamError ==
    /\ stream.pc = "lines"
    /\ upstream.end = "open"
    /\ LET next == take_next_data_line(sseBuffer)
       IN  /\ next.line = None
           /\ sseBuffer' = next.buffer
    /\ upstream' = [upstream EXCEPT !.end = "err"]
    /\ LoopExit
    /\ UNCHANGED <<affinity, streamConst>>

\* poll_next finds no complete line and the byte stream is at its end: the
\* buffer is drained with take_next_data_line once more.
UpstreamEof ==
    /\ stream.pc = "lines"
    /\ upstream.end \in {"open", "eof"}
    /\ LET next == take_next_data_line(sseBuffer)
           drained == take_next_data_line(next.buffer)
       IN  /\ next.line = None
           /\ IF IsSome(drained.line)
              THEN Received(Unwrap(drained.line), drained.buffer)
              ELSE sseBuffer' = drained.buffer /\ LoopExit
    /\ upstream' = [upstream EXCEPT !.end = "eof"]
    /\ UNCHANGED <<affinity, streamConst>>

\* After the sentinel: the affinity record, and the stream ends.
StreamRecord ==
    /\ stream.pc = "record"
    /\ affinity' = IF stream.cache_enabled /\ IsSome(stream.prefix_hash)
                   THEN AffinityRecord(affinity, StreamModel,
                                       Unwrap(stream.prefix_hash), StreamBackend)
                   ELSE affinity
    /\ stream' = [stream EXCEPT !.pc = "closed"]
    /\ UNCHANGED <<upstream, sseBuffer, yielded, events, streamConst>>

NextStream ==
    \/ StreamLine
    \/ UpstreamBytes
    \/ UpstreamError
    \/ UpstreamEof
    \/ StreamRecord

SpecStream == InitStream /\ [][NextStream]_vars

(***************************************************************************)
(* SpecSse: SseLineParser over a byte stream (outbound/streaming.rs)       *)
(* Bytes: the ASCII characters of Chars that matter to the parser, and the *)
(* two bytes of the two-byte UTF-8 encoding of one character (0xC3 0xA9,   *)
(* U+00E9). Text: the same ASCII characters, "U+00E9" and "U+FFFD".        *)
(***************************************************************************)
SseBytes == {"\n", "\r", ":", "data: ", "x", "0xC3", "0xA9"}

\* String::from_utf8_lossy: every maximal invalid sequence becomes U+FFFD.
\* On valid UTF-8 it is str::from_utf8, the Ok branch of poll_next.
RECURSIVE from_utf8_lossy(_)
from_utf8_lossy(bytes) ==
    IF bytes = <<>> THEN <<>>
    ELSE IF Head(bytes) = "0xC3"
    THEN IF Len(bytes) >= 2 /\ bytes[2] = "0xA9"
         THEN <<"U+00E9">> \o from_utf8_lossy(SubSeq(bytes, 3, Len(bytes)))
         ELSE <<"U+FFFD">> \o from_utf8_lossy(Tail(bytes))
    ELSE IF Head(bytes) = "0xA9"
    THEN <<"U+FFFD">> \o from_utf8_lossy(Tail(bytes))
    ELSE <<Head(bytes)>> \o from_utf8_lossy(Tail(bytes))

\* All the chunks the byte stream may yield at once.
SseChunks == UNION {[1..k -> SseBytes] : k \in 1..MaxChunkLen}

\* The bytes of a sequence of chunks, concatenated.
RECURSIVE Concatenation(_)
Concatenation(chunks) ==
    IF chunks = <<>> THEN <<>> ELSE Head(chunks) \o Concatenation(Tail(chunks))

InitSse ==
    /\ IdleEarlier /\ IdleLaterSse
    /\ sse = [chunks |-> <<>>, buffer |-> <<>>, lines |-> <<>>, done |-> FALSE]

\* poll_next finds a complete line in the buffer and yields it.
SsePollLine ==
    /\ ~sse.done
    /\ LET next == take_next_data_line(sse.buffer)
       IN  /\ IsSome(next.line)
           /\ sse' = [sse EXCEPT !.buffer = next.buffer,
                                 !.lines = Append(@, Unwrap(next.line))]
    /\ UNCHANGED <<varsEarlier, laterSse>>

\* poll_next finds no complete line and the inner stream yields a chunk.
SsePollBytes ==
    /\ ~sse.done
    /\ LET next == take_next_data_line(sse.buffer)
       IN  /\ next.line = None
           /\ \E bytes \in SseChunks :
                /\ Len(Concatenation(sse.chunks)) + Len(bytes) <= MaxSseBytes
                /\ sse' = [sse EXCEPT !.chunks = Append(@, bytes),
                                      !.buffer = next.buffer \o from_utf8_lossy(bytes)]
    /\ UNCHANGED <<varsEarlier, laterSse>>

\* poll_next finds no complete line and the inner stream is at its end: the
\* buffer is drained once more, and the stream ends.
SsePollEof ==
    /\ ~sse.done
    /\ LET next == take_next_data_line(sse.buffer)
           drained == take_next_data_line(next.buffer)
       IN  /\ next.line = None
           /\ sse' = IF IsSome(drained.line)
                     THEN [sse EXCEPT !.buffer = drained.buffer,
                                      !.lines = Append(@, Unwrap(drained.line))]
                     ELSE [sse EXCEPT !.buffer = drained.buffer, !.done = TRUE]
    /\ UNCHANGED <<varsEarlier, laterSse>>

NextSse == SsePollLine \/ SsePollBytes \/ SsePollEof

SpecSse == InitSse /\ [][NextSse]_vars

(***************************************************************************)
(* C1                                                                      *)
(***************************************************************************)
\* The timestamps of a window that lie in [now_ms - window_ms, now_ms].
InWindow(timestamps, now_ms, window_ms) ==
    SelectSeq(timestamps, LAMBDA t : t >= now_ms - window_ms /\ t <= now_ms)

\* C1: with non-decreasing clock values, check(t) rejects if and only if the
\* limiter held at least `limit` timestamps in [t - window_ms, t]; a rejected
\* call keeps exactly those timestamps, an accepted call keeps them and
\* records t at the back.
C1_CheckRejectsIffWindowFull ==
    rlLast.called =>
        LET held == InWindow(rlLast.before, rlLast.now_ms, limiter.window_ms)
        IN  /\ (~rlLast.ok) <=> (Len(held) >= limiter.limit)
            /\ ~rlLast.ok => limiter.timestamps = held
            /\ rlLast.ok => limiter.timestamps = Append(held, rlLast.now_ms)

\* A call is rejected after the window has slid past time 0, with a held
\* timestamp sitting exactly on the window's lower edge.
C1_Witness ==
    /\ rlLast.called
    /\ ~rlLast.ok
    /\ limiter.limit >= 2
    /\ rlLast.now_ms > limiter.window_ms
    /\ Head(limiter.timestamps) = rlLast.now_ms - limiter.window_ms

(***************************************************************************)
(* C2                                                                      *)
(***************************************************************************)
\* The entries of the stored list whose key is the presented byte string.
IdenticalEntries(cl, key) == {i \in DOMAIN cl : cl[i].key = key}

\* C2: validate(key) returns InvalidApiKey if and only if no stored key is
\* the same byte string as the presented key (same length, same bytes);
\* otherwise it returns the ClientInfo of a stored entry with that key (of the
\* last one, should the list hold the key twice); and it compares the key
\* with every stored entry.
C2_ValidateExactMatch ==
    authLast.called =>
        LET same == IdenticalEntries(clients, authLast.key)
            r == authLast.result
        IN  /\ (~r.ok) <=> (same = {})
            /\ ~r.ok => r.err = "InvalidApiKey"
            /\ r.ok => /\ \E i \in same : r.info = Some(clients[i].info)
                       /\ \A i \in same :
                            r.info = Some(clients[i].info) \/ \E j \in same : j > i
            /\ r.compared = Len(clients)

\* A presented key that is a stored key with its trailing NUL byte cut off
\* (its zero-padded form is the stored key) is refused.
C2_Witness ==
    /\ authLast.called
    /\ ~authLast.result.ok
    /\ \E i \in DOMAIN clients :
          /\ Len(clients[i].key) = Len(authLast.key) + 1
          /\ SubSeq(clients[i].key, 1, Len(authLast.key)) = authLast.key
          /\ clients[i].key[Len(clients[i].key)] = 0
          /\ Len(authLast.key) >= 1

(***************************************************************************)
(* C8, C9                                                                  *)
(***************************************************************************)
\* The tokens a client has used in a period, read off a usage map.
UsedIn(u, client, period) ==
    IF client \in DOMAIN u /\ u[client].period = period
    THEN u[client].tokens_used ELSE 0

\* C8: check returns Ok when the config has no monthly limit or when
\* used + estimated <= limit, where used counts only the stored period equal
\* to the period passed; otherwise QuotaExceeded{limit, used}; and check
\* leaves the tracker as it was.
C8_QuotaCheck ==
    quotaLast.op = "check" =>
        LET used == UsedIn(quotaLast.before, quotaLast.client, quotaLast.period)
            within == \/ quotaLast.limit = None
                      \/ used + quotaLast.tokens <= Unwrap(quotaLast.limit)
        IN  /\ quotaLast.result.ok <=> within
            /\ ~quotaLast.result.ok =>
                  /\ quotaLast.result.limit = Unwrap(quotaLast.limit)
                  /\ quotaLast.result.used = used
            /\ usage = quotaLast.before

\* A check in a new period passes although the stored usage of the previous
\* period alone is over the limit.
C8_Witness ==
    /\ quotaLast.op = "check"
    /\ quotaLast.result.ok
    /\ quotaLast.limit # None
    /\ quotaLast.client \in DOMAIN quotaLast.before
    /\ quotaLast.before[quotaLast.client].period # quotaLast.period
    /\ quotaLast.before[quotaLast.client].tokens_used > Unwrap(quotaLast.limit)
    /\ quotaLast.tokens >= 1

\* C9: record with a period other than the stored one leaves tokens_used at
\* exactly actual_tokens and stores the new period; with the stored period it
\* adds exactly actual_tokens; the entries of other clients stay as they were.
C9_QuotaRecord ==
    quotaLast.op = "record" =>
        LET c == quotaLast.client
            b == quotaLast.before
        IN  /\ DOMAIN usage = DOMAIN b \cup {c}
            /\ usage[c].period = quotaLast.period
            /\ usage[c].tokens_used =
                  IF c \in DOMAIN b /\ b[c].period = quotaLast.period
                  THEN b[c].tokens_used + quotaLast.tokens
                  ELSE quotaLast.tokens
            /\ \A o \in DOMAIN b \ {c} : usage[o] = b[o]

\* The first record of a new period, for a client that had used tokens in
\* the old one while another client has an entry too.
C9_Witness ==
    /\ quotaLast.op = "record"
    /\ quotaLast.client \in DOMAIN quotaLast.before
    /\ quotaLast.before[quotaLast.client].period # quotaLast.period
    /\ quotaLast.before[quotaLast.client].tokens_used >= 1
    /\ quotaLast.tokens >= 1
    /\ DOMAIN quotaLast.before # {quotaLast.client}

(***************************************************************************)
(* C3, C4, C5                                                              *)
(***************************************************************************)
\* The backends of the snapshot that serve the model and are Healthy or
\* Degraded, and those of them with capacity, as sets of indices.
Routable(model) ==
    {i \in DOMAIN snapshot :
        /\ model \in {snapshot[i].models[k] : k \in DOMAIN snapshot[i].models}
        /\ snapshot[i].status \in {"Healthy", "Degraded"}}
RoutableWithCapacity(model) ==
    {i \in Routable(model) : snapshot[i].active_requests < snapshot[i].max_concurrent}

\* C3: when some routable backend has capacity the selected backend has
\* capacity; when none has but some backend is routable, the call still
\* returns Ok with a routable backend.
C3_CapacityPreferredFallbackTotal ==
    routeLast.called =>
        LET m == routeLast.model
            r == routeLast.result
        IN  /\ RoutableWithCapacity(m) # {} =>
                  /\ r.ok
                  /\ \E i \in RoutableWithCapacity(m) : snapshot[i].id = r.id
            /\ (RoutableWithCapacity(m) = {} /\ Routable(m) # {}) =>
                  /\ r.ok
                  /\ \E i \in Routable(m) : snapshot[i].id = r.id

\* Overload fallback with a choice: two routable backends, both at their
\* limit, and a backend is selected.
C3_Witness ==
    /\ routeLast.called
    /\ routeLast.result.ok
    /\ RoutableWithCapacity(routeLast.model) = {}
    /\ Cardinality(Routable(routeLast.model)) >= 2

\* The backends of the snapshot that serve the model, as a set of indices.
ServingSet(model) ==
    {i \in DOMAIN snapshot :
        model \in {snapshot[i].models[k] : k \in DOMAIN snapshot[i].models}}

\* C4: select_backend returns ModelNotFound iff no backend of the snapshot
\* serves the model, NoHealthyBackend iff some backend serves it but none of
\* those is Healthy or Degraded, and in every other case the id of a backend
\* that serves the model and is Healthy or Degraded.
C4_RoutingErrors ==
    routeLast.called =>
        LET m == routeLast.model
            r == routeLast.result
        IN  /\ (~r.ok /\ r.err = "ModelNotFound") <=> (ServingSet(m) = {})
            /\ (~r.ok /\ r.err = "NoHealthyBackend") <=>
                  (ServingSet(m) # {} /\ Routable(m) = {})
            /\ (ServingSet(m) # {} /\ Routable(m) # {}) =>
                  /\ r.ok
                  /\ \E i \in Routable(m) : snapshot[i].id = r.id
            /\ r.ok => \A i \in DOMAIN snapshot :
                          snapshot[i].id = r.id =>
                              snapshot[i].status \notin {"Unhealthy", "Unknown"}

\* NoHealthyBackend although a Healthy backend with capacity exists: it does
\* not serve the model, and the backend that does is Unknown.
C4_Witness ==
    /\ routeLast.called
    /\ ~routeLast.result.ok
    /\ routeLast.result.err = "NoHealthyBackend"
    /\ \E i \in DOMAIN snapshot :
          /\ i \notin ServingSet(routeLast.model)
          /\ snapshot[i].status = "Healthy"
          /\ snapshot[i].active_requests < snapshot[i].max_concurrent
    /\ \E i \in ServingSet(routeLast.model) : snapshot[i].status = "Unknown"

\* Whether the hint of the latest call names a backend that serves the model,
\* is Healthy or Degraded and has capacity.
HintQualifies ==
    /\ routeLast.hint # None
    /\ \E i \in RoutableWithCapacity(routeLast.model) :
          snapshot[i].id = Unwrap(routeLast.hint)

\* C5 as stated: the hinted backend is returned if and only if the hint names
\* a backend that serves the model, is Healthy or Degraded and has capacity.
C5_Original_HintedIffQualifies ==
    (routeLast.called /\ routeLast.hint # None) =>
        ((routeLast.result.ok /\ routeLast.result.id = Unwrap(routeLast.hint))
            <=> HintQualifies)

\* C5, amended: a hint that names a backend that serves the model, is Healthy
\* or Degraded and has capacity is returned whatever the strategy, the round
\* and the load of the others; any other hint has no influence: the result is
\* that of the same call without a hint (which may be the hinted backend,
\* when the strategy or the overload fallback picks it).
C5_HintHonoredOrIgnored ==
    routeLast.called =>
        /\ HintQualifies =>
              /\ routeLast.result.ok
              /\ routeLast.result.id = Unwrap(routeLast.hint)
        /\ ~HintQualifies =>
              routeLast.result = SelectBackend(snapshot, routeLast.model,
                                    routeLast.strategy, routeLast.round, None)

\* The hint decides: the hinted backend is returned although the same call
\* without a hint selects another backend.
C5_Witness ==
    /\ routeLast.called
    /\ HintQualifies
    /\ routeLast.result.id = Unwrap(routeLast.hint)
    /\ SelectBackend(snapshot, routeLast.model, routeLast.strategy,
                     routeLast.round, None).id # Unwrap(routeLast.hint)

(***************************************************************************)
(* C6                                                                      *)
(***************************************************************************)
\* C6: after any sequence of record, get and evict_backend calls the map
\* holds at most max_entries entries; and right after evict_backend(b) no
\* entry maps to b, while every entry that mapped to another backend is
\* still there, unchanged.
C6_AffinityBoundedAndEvicted ==
    /\ Cardinality(DOMAIN affinity.entries) <= affinity.max_entries
    /\ affLast.op = "evict_backend" =>
          /\ \A k \in DOMAIN affinity.entries :
                affinity.entries[k].backend # affLast.backend
          /\ \A k \in DOMAIN affLast.before :
                affLast.before[k].backend # affLast.backend =>
                    /\ k \in DOMAIN affinity.entries
                    /\ affinity.entries[k] = affLast.before[k]

\* evict_backend on a full map that holds an entry of the evicted backend
\* and an entry of another one.
C6_Witness ==
    /\ affLast.op = "evict_backend"
    /\ Cardinality(DOMAIN affLast.before) = affinity.max_entries
    /\ \E k \in DOMAIN affLast.before : affLast.before[k].backend = affLast.backend
    /\ \E k \in DOMAIN affLast.before : affLast.before[k].backend # affLast.backend

(***************************************************************************)
(* C7                                                                      *)
(***************************************************************************)
\* C7: every backend starts Unknown with no failures; a successful probe
\* below degraded_latency_ms makes the backend Healthy, stores the latency
\* and zeroes the failure count; a successful probe at or above it makes the
\* backend Degraded, stores the latency and keeps the failure count; a failed
\* probe adds one to the failure count and makes the backend Unhealthy
\* exactly when the new count is at least unhealthy_threshold, leaving the
\* status as it was otherwise. Nothing else of the backend changes.
C7_ProbeTransitions ==
    /\ ~healthLast.called =>
          \A id \in DOMAIN backend_states :
              /\ backend_states[id].status = "Unknown"
              /\ backend_states[id].consecutive_failures = 0
    /\ healthLast.called =>
          LET b == healthLast.before
              a == backend_states[healthLast.backend]
              r == healthLast.result
          IN  /\ (r.ok /\ r.latency < healthCfg.degraded_latency_ms) =>
                    /\ a.status = "Healthy"
                    /\ a.last_latency = Some(r.latency)
                    /\ a.consecutive_failures = 0
              /\ (r.ok /\ r.latency >= healthCfg.degraded_latency_ms) =>
                    /\ a.status = "Degraded"
                    /\ a.last_latency = Some(r.latency)
                    /\ a.consecutive_failures = b.consecutive_failures
              /\ ~r.ok =>
                    /\ a.consecutive_failures = b.consecutive_failures + 1
                    /\ a.last_latency = b.last_latency
                    /\ IF a.consecutive_failures >= healthCfg.unhealthy_threshold
                       THEN a.status = "Unhealthy"
                       ELSE a.status = b.status
              /\ a.id = b.id /\ a.models = b.models
              /\ a.active_requests = b.active_requests
              /\ a.max_concurrent = b.max_concurrent

\* A slow successful probe of a backend that has failed before: it becomes
\* Degraded and keeps its failure count.
C7_Witness ==
    /\ healthLast.called
    /\ healthLast.result.ok
    /\ healthLast.result.latency >= healthCfg.degraded_latency_ms
    /\ healthLast.before.consecutive_failures >= 1
    /\ healthLast.before.status = "Unknown"
    /\ backend_states[healthLast.backend].status = "Degraded"

(***************************************************************************)
(* C10                                                                     *)
(***************************************************************************)
\* The steps of the pipeline in the order of the specification.
StepOrder ==
    <<"extract_api_key", "parse_request", "validate", "check_model_permission",
      "rate_limit", "quota", "affinity_get", "route", "forward", "quota_record",
      "affinity_record">>
StepIndex(step) == CHOOSE k \in DOMAIN StepOrder : StepOrder[k] = step

\* The errors a step can end a request with.
ErrorsOf(step) ==
    CASE step \in {"extract_api_key", "validate"} -> {"InvalidApiKey"}
      [] step = "parse_request" -> {"ParseRequest"}
      [] step = "check_model_permission" -> {"ModelNotPermitted"}
      [] step = "rate_limit" -> {"RateLimited"}
      [] step = "quota" -> {"QuotaExceeded"}
      [] step = "route" -> {"ModelNotFound", "NoHealthyBackend"}
      [] step = "forward" -> {"Connection", "HttpStatus", "ParseRequest"}
      [] OTHER -> {}

\* The header is present, is text, and starts with "Bearer ".
WellFormedBearer(authorization) ==
    /\ authorization # None
    /\ LET value == Unwrap(authorization)
       IN  /\ Len(value) >= Len(BearerPrefix)
           /\ \A k \in DOMAIN BearerPrefix : value[k] = BearerPrefix[k]
           /\ \A k \in DOMAIN value : value[k] \in (32..126) \cup {9}
BearerToken(authorization) ==
    LET value == Unwrap(authorization)
    IN  [k \in 1..(Len(value) - Len(BearerPrefix)) |-> value[k + Len(BearerPrefix)]]

\* The body is an OaiRequest whose messages all have a known role.
BodyParses(body) ==
    body.json /\ \A k \in DOMAIN body.messages :
                    body.messages[k].role \in {"system", "user", "assistant", "tool"}

Registered(key) == \E k \in DOMAIN clients : clients[k].key = key
ClientOfKey(key) == clients[CHOOSE k \in DOMAIN clients : clients[k].key = key].info
Permitted(info, model) ==
    info.allowed_models = "All"
        \/ model \in {info.allowed_models[k] : k \in DOMAIN info.allowed_models}

\* The step of steps 1 to 4 at which the request fails ("" when none does).
FirstFailure(r) ==
    IF ~WellFormedBearer(r.authorization) THEN "extract_api_key"
    ELSE IF ~BodyParses(r.body) THEN "parse_request"
    ELSE IF ~Registered(BearerToken(r.authorization)) THEN "validate"
    ELSE IF ~Permitted(ClientOfKey(BearerToken(r.authorization)), r.body.model)
    THEN "check_model_permission"
    ELSE ""

\* The steps the pipeline takes for request r up to step `last`, skipping
\* the quota steps of a client without a monthly limit and the affinity
\* steps when cache-aware routing is off.
StepsUpTo(r, last) ==
    SelectSeq(StepOrder,
              LAMBDA step :
                 /\ StepIndex(step) <= StepIndex(last)
                 /\ step \in {"quota", "quota_record"} =>
                       ClientOfKey(BearerToken(r.authorization)).monthly_token_limit
                           # None
                 /\ step \in {"affinity_get", "affinity_record"} => appCfg.cache.enabled)

\* C10: a request whose Authorization header is missing or is no Bearer
\* header ends with InvalidApiKey and its body is never parsed; with a
\* well-formed Bearer header a body that does not parse ends it with
\* ParseRequest whether or not the key is registered; after that the request
\* takes the steps validate, check_model_permission, rate_limit, quota, route
\* in this order and ends with the error of the first step that fails: every
\* step it has taken before its last one has passed, a failing step is its
\* last one, and a passing step leaves it in flight. A step fails or passes
\* on the state it reads under its lock: rate_limit as the client's limiter
\* decides for the clock value the request read, quota on the usage of the
\* current month, route on the snapshot of the backend states.
C10_FirstFailingStepDecides ==
    pipeLast.step # "none" =>
        LET r == pipeLast.after
            fail == FirstFailure(r)
            last == r.steps[Len(r.steps)]
            failed == r.pc = "done" /\ r.result # "ok"
        IN  /\ r.steps # <<>>
            /\ fail = "extract_api_key" =>
                  /\ r.result = "InvalidApiKey"
                  /\ r.steps = <<"extract_api_key">>
            /\ fail = "parse_request" =>
                  /\ r.result = "ParseRequest"
                  /\ r.steps = <<"extract_api_key", "parse_request">>
            /\ fail = "validate" =>
                  /\ r.result = "InvalidApiKey"
                  /\ r.steps = <<"extract_api_key", "parse_request", "validate">>
            /\ fail = "check_model_permission" =>
                  /\ r.result = "ModelNotPermitted"
                  /\ r.steps = <<"extract_api_key", "parse_request", "validate",
                                 "check_model_permission">>
            /\ fail = "" =>
                  /\ r.steps = StepsUpTo(r, last)
                  /\ StepIndex(last) >= StepIndex("check_model_permission")
                  /\ pipeLast.step = "rate_limit" =>
                        LET info == ClientOfKey(BearerToken(r.authorization))
                            entry == IF info.id \in DOMAIN pipeLast.read
                                     THEN pipeLast.read[info.id]
                                     ELSE RateLimiterNew(60000, info.requests_per_minute)
                        IN  /\ last = "rate_limit"
                            /\ failed <=> ~RateLimiterCheck(entry, r.now_ms).ok
                  /\ pipeLast.step = "quota" =>
                        LET info == ClientOfKey(BearerToken(r.authorization))
                            used == UsedIn(pipeLast.read.usage, info.id,
                                           pipeLast.read.period)
                        IN  /\ last = "quota"
                            /\ failed <=>
                                  used + (r.body.messages[1].content \div 4)
                                      > Unwrap(info.monthly_token_limit)
                  /\ pipeLast.step = "route" =>
                        /\ last = "route"
                        /\ failed <=>
                              ~\E k \in DOMAIN pipeLast.read :
                                  /\ r.body.model \in
                                        {pipeLast.read[k].models[m] :
                                            m \in DOMAIN pipeLast.read[k].models}
                                  /\ pipeLast.read[k].status \in {"Healthy", "Degraded"}
            /\ failed => r.result \in ErrorsOf(last)
            /\ r.pc = "done" <=> r.result # ""
            /\ (fail = "" /\ failed /\ last \in {"rate_limit", "quota", "route"}) =>
                  r.result \notin {"InvalidApiKey", "ParseRequest", "ModelNotPermitted"}

\* A request with a well-formed Bearer header whose key is not registered
\* and whose body does not parse has been answered with ParseRequest.
C10_Witness ==
    /\ pipeLast.step = "steps1to4"
    /\ WellFormedBearer(pipeLast.after.authorization)
    /\ ~Registered(BearerToken(pipeLast.after.authorization))
    /\ ~BodyParses(pipeLast.after.body)
    /\ pipeLast.after.result = "ParseRequest"
    /\ reqs[pipeLast.req].pc = "done"

(***************************************************************************)
(* C11                                                                     *)
(***************************************************************************)
\* The (model, prefix) -> backend mapping of affinity entries.
BackendOfKey(entries) == [k \in DOMAIN entries |-> entries[k].backend]

\* C11: a backend call that fails (no connection, a status that is no
\* success, a response that does not parse) ends the request at once and
\* leaves the quota usage and the affinity mapping as they were; the request
\* never takes a record step; and whenever a step changes the usage or the
\* mapping it is a record step of a request whose backend call has passed.
C11_FailedCallRecordsNothing ==
    pipeLast.step # "none" =>
        LET r == pipeLast.after
            changed == \/ usage # pipeLast.usage
                       \/ BackendOfKey(affinity.entries) # BackendOfKey(pipeLast.entries)
        IN  /\ (pipeLast.step = "forward" /\ ~pipeLast.ok) =>
                  /\ r.pc = "done"
                  /\ r.result \in {"Connection", "HttpStatus", "ParseRequest"}
                  /\ ~changed
            /\ (r.pc = "done" /\ r.result # "ok") =>
                  /\ "quota_record" \notin {r.steps[k] : k \in DOMAIN r.steps}
                  /\ "affinity_record" \notin {r.steps[k] : k \in DOMAIN r.steps}
            /\ changed =>
                  /\ pipeLast.step \in {"quota_record", "affinity_record"}
                  /\ \E k \in DOMAIN r.steps :
                        /\ r.steps[k] = "forward"
                        /\ k < Len(r.steps)

\* The backend call of a client with a monthly limit has failed while
\* cache-aware routing is on: the request is answered, nothing is recorded.
C11_Witness ==
    /\ pipeLast.step = "forward"
    /\ ~pipeLast.ok
    /\ appCfg.cache.enabled
    /\ pipeLast.after.client # None
    /\ Unwrap(pipeLast.after.client).monthly_token_limit # None
    /\ reqs[pipeLast.req].pc = "done"
    /\ usage = QuotaTrackerNew
    /\ affinity.entries = NoEntries

(***************************************************************************)
(* C12: across every interleaving of concurrent requests of one client,    *)
(* buffered or streaming, the lookup-or-insert of the client's limiter and *)
(* its check are one atomic step, and the number of admitted requests      *)
(* whose recorded timestamps fall in any closed interval of length         *)
(* window_ms (60 000 ms) never exceeds the client's requests-per-minute    *)
(* limit.                                                                  *)
(***************************************************************************)
GateAdmitted == {i \in 1..MaxGateRequests : gateReqs[i].pc = "done" /\ gateReqs[i].ok}

\* The admitted requests whose timestamp lies in [from, from + window_ms].
GateAdmittedIn(from) ==
    {i \in GateAdmitted : from <= gateReqs[i].now_ms
                           /\ gateReqs[i].now_ms <= from + RateWindowMs}

C12_AdmittedWithinLimit ==
    /\ DOMAIN gateLimiters \subseteq {GateClient}
    /\ (\E i \in 1..MaxGateRequests : gateReqs[i].pc = "done")
          => /\ GateClient \in DOMAIN gateLimiters
             /\ gateLimiters[GateClient].limit = GateRpm
             /\ gateLimiters[GateClient].window_ms = RateWindowMs
    /\ \A from \in GateClockValues : Cardinality(GateAdmittedIn(from)) <= GateRpm

(***************************************************************************)
(* C13: the events emitted to the client are, in upstream order, exactly   *)
(* the formatted chunks of the lines for which the outbound adapter        *)
(* returns a chunk and the inbound adapter a payload; a line that fails to *)
(* parse or yields None is dropped without ending the stream or affecting  *)
(* later lines; after upstream EOF the done sentinel is emitted exactly    *)
(* once, as the last event.                                                *)
(***************************************************************************)
\* The line gives an event: both adapters return something for it.
GivesEvent(line) ==
    /\ ParseStreamLine(line).ok
    /\ IsSome(ParseStreamLine(line).chunk)
    /\ IsSome(FormatStreamChunk(Unwrap(ParseStreamLine(line).chunk)))

RECURSIVE FormattedChunks(_)
FormattedChunks(lines) ==
    IF lines = <<>> THEN <<>>
    ELSE (IF GivesEvent(Head(lines))
          THEN <<Event(Unwrap(FormatStreamChunk(Unwrap(ParseStreamLine(Head(lines)).chunk))))>>
          ELSE <<>>) \o FormattedChunks(Tail(lines))

C13_EventsAreFormattedChunks ==
    /\ stream.pc = "lines" => events = FormattedChunks(yielded)
    /\ stream.pc # "lines" => upstream.end # "open"
    /\ (stream.pc # "lines" /\ upstream.end = "eof")
          => events = Append(FormattedChunks(yielded), Event(DoneSentinel))
    /\ \A i \in DOMAIN events :
          events[i] = Event(DoneSentinel) => i = Len(events) /\ stream.pc # "lines"

\* The backend sent a line that is dropped and then a line that gives an
\* event, and closed the stream.
C13_Witness ==
    /\ stream.pc = "closed"
    /\ upstream.end = "eof"
    /\ \E i, j \in DOMAIN yielded :
          i < j /\ ~ParseStreamLine(yielded[i]).ok /\ GivesEvent(yielded[j])
    /\ Len(events) = 2

(***************************************************************************)
(* C14: if the backend connection fails mid-stream (the upstream byte      *)
(* stream yields an error after the response started), the client response *)
(* ends without the done sentinel being emitted.                           *)
(***************************************************************************)
C14_NoSentinelAfterError ==
    upstream.end = "err" => \A i \in DOMAIN events : events[i] # Event(DoneSentinel)

(***************************************************************************)
(* C16: when the upstream byte stream ends, a pending trailing line that   *)
(* no newline terminates is yielded before the reassembler reports the end *)
(* of the stream, so that no non-empty, non-comment input line is lost.    *)
(***************************************************************************)
\* The lines of a text: its newline-terminated lines and what follows the
\* last newline, each without trailing '\r' and without the "data: "
\* prefix, the empty lines and the comment lines left out.
RECURSIVE InputLines(_)
InputLines(text) ==
    LET newline_pos == IF FindNewline(text) = 0 THEN Len(text) + 1
                       ELSE FindNewline(text)
        line == TrimEndCr(SubSeq(text, 1, newline_pos - 1))
        rest == SubSeq(text, newline_pos + 1, Len(text))
    IN  IF text = <<>> THEN <<>>
        ELSE IF line = <<>> \/ Head(line) = ":" THEN InputLines(rest)
        ELSE IF Head(line) = "data: " THEN <<Tail(line)>> \o InputLines(rest)
        ELSE <<line>> \o InputLines(rest)

C16_TrailingLineDrained ==
    (stream.pc # "lines" /\ upstream.end = "eof") => yielded = InputLines(upstream.received)

(***************************************************************************)
(* C15: the streaming pipeline never records quota: after any sequence of  *)
(* streaming requests, successful or not, the usage of every client is     *)
(* what it was before them, while the quota check at admission is still    *)
(* made against the estimated input tokens.                                *)
(***************************************************************************)
C15_StreamNeverRecordsQuota ==
    /\ usage \in UsageBefore
    /\ pipeLast.step # "none" => usage = pipeLast.usage
    /\ pipeLast.step = "quota" =>
          LET r == pipeLast.after
              client == Unwrap(r.client)
              estimated == TotalChars(r.body.messages) \div 4
          IN  pipeLast.ok <=>
                 (IsSome(client.monthly_token_limit) =>
                     UsedIn(usage, client.id, wall.period) + estimated
                        <= Unwrap(client.monthly_token_limit))
    /\ LET r == pipeLast.after
           taken == {r.steps[k] : k \in DOMAIN r.steps}
       IN  ("forward" \in taken /\ IsSome(Unwrap(r.client).monthly_token_limit))
              => "quota" \in taken

\* The stream of a request of a client with a monthly limit ran to its end
\* while the tracker held a stale entry of that client.
C15_Witness ==
    /\ pipeLast.step = "stream"
    /\ pipeLast.ok
    /\ IsSome(Unwrap(pipeLast.after.client).monthly_token_limit)
    /\ Unwrap(pipeLast.after.client).id \in DOMAIN usage
    /\ usage[Unwrap(pipeLast.after.client).id].period = PreviousPeriod

(***************************************************************************)
(* C17: when the probe loop moves a backend to Unhealthy, evict_backend is *)
(* applied for that backend, so that in every state in which a backend is  *)
(* Unhealthy no affinity entry maps to it.                                 *)
(***************************************************************************)
C17_UnhealthyBackendEvicted ==
    \A id \in BackendIds :
        backend_states[id].status = "Unhealthy"
            => \A key \in DOMAIN affinity.entries : affinity.entries[key].backend # id

(***************************************************************************)
(* C18: every pair export_dpo_pairs emits comes from an annotation whose   *)
(* verdict is refused or biased and which matches every filter field that  *)
(* is set; its chosen text is the trimmed, non-empty expected_response,    *)
(* its rejected text the content of the annotated turn, whose role is      *)
(* assistant, and its prompt the content of the last user turn before the  *)
(* annotated turn in the turn listing of the conversation. An annotation   *)
(* with a missing link gives no pair and no error.                         *)
(***************************************************************************)
\* The turns of the store with the id, and the conversations with the id.
TurnsWithId(id) == {i \in DOMAIN fbStore.turns : fbStore.turns[i].id = id}
ConversationsWithId(id) ==
    {i \in DOMAIN fbStore.conversations : fbStore.conversations[i].id = id}

\* The pair is one of annotation a: a passes the filter f, and turn t,
\* conversation k and user turn u are its links.
IsPairOf(pair, a, f) ==
    /\ a.verdict \in {"Refused", "Biased"}
    /\ f.annotator_id # None => a.annotator_id = Unwrap(f.annotator_id)
    /\ f.verdict # None => a.verdict = Unwrap(f.verdict)
    /\ f.since # None => a.created_at >= Unwrap(f.since)
    /\ f.until # None => a.created_at <= Unwrap(f.until)
    /\ a.expected_response # None
    /\ pair.chosen = StrTrim(Unwrap(a.expected_response))
    /\ pair.chosen # <<>>
    /\ \E t \in TurnsWithId(a.turn_id) :
          LET turn == fbStore.turns[t]
          IN  /\ turn.role = "Assistant"
              /\ pair.rejected = turn.content
              /\ \E k \in ConversationsWithId(turn.conversation_id) :
                    LET conversation == fbStore.conversations[k]
                        listing == get_turns_for_conversation(fbStore, conversation.id)
                    IN  /\ f.model_id # None => conversation.model_id = Unwrap(f.model_id)
                        /\ pair.metadata.conversation_id = conversation.id
                        /\ pair.metadata.model_id = conversation.model_id
                        /\ \E at \in DOMAIN listing, u \in DOMAIN listing :
                              /\ listing[at].id = turn.id
                              /\ u < at
                              /\ listing[u].role = "User"
                              /\ \A v \in (u + 1)..(at - 1) : listing[v].role # "User"
                              /\ pair.prompt = listing[u].content
    /\ pair.metadata.annotator_id = a.annotator_id
    /\ pair.metadata.verdict = a.verdict
    /\ pair.metadata.annotated_at = a.created_at

C18_PairsComeFromLinkedAnnotations ==
    exportLast.called =>
        LET pairs == exportLast.pairs
            f == exportLast.filter
            annotations == fbStore.annotations
            linked == {i \in DOMAIN annotations :
                          \E p \in {pairs[j] : j \in DOMAIN pairs} :
                              IsPairOf(p, annotations[i], f)}
        IN  /\ \A j \in DOMAIN pairs :
                  \E i \in DOMAIN annotations : IsPairOf(pairs[j], annotations[i], f)
            /\ Len(pairs) <= Cardinality(linked)

\* A pair was emitted whose prompt is the second of two user turns before
\* the annotated turn, under a filter with every field set.
C18_Witness ==
    /\ exportLast.called
    /\ Len(exportLast.pairs) = 1
    /\ exportLast.filter.annotator_id # None /\ exportLast.filter.model_id # None
    /\ exportLast.filter.verdict # None /\ exportLast.filter.since # None
    /\ exportLast.filter.until # None
    /\ Len(fbStore.turns) = 3
    /\ fbStore.turns[1].role = "User" /\ fbStore.turns[1].conversation_id = "k1"
    /\ fbStore.turns[2].role = "User" /\ fbStore.turns[2].conversation_id = "k1"
    /\ exportLast.pairs[1].prompt = <<2>>
    /\ exportLast.pairs[1].rejected = <<3>>


(***************************************************************************)
(* C19: POST /v1/feedback stores an annotation only for an authenticated   *)
(* client with a CLA record                                                *)
(***************************************************************************)
\* The key the latest feedback request presented, and the client it
\* authenticates.
FeedbackKey == extract_feedback_api_key(feedbackLast.headers)
FeedbackAuthenticated ==
    FeedbackKey.ok /\ Validate(clients, FeedbackKey.key).ok
FeedbackClient == Unwrap(Validate(clients, FeedbackKey.key).info).id

\* The latest feedback request left the store as it was.
FeedbackStoreUnchanged == feedbackLast.after = feedbackLast.before

\* The latest feedback request stored one annotation, and nothing else
\* changed.
FeedbackStoredOne ==
    /\ Len(feedbackLast.after.annotations) = Len(feedbackLast.before.annotations) + 1
    /\ feedbackLast.after =
          [feedbackLast.before EXCEPT !.annotations =
              Append(@, feedbackLast.after.annotations[Len(feedbackLast.after.annotations)])]

FeedbackStored ==
    feedbackLast.after.annotations[Len(feedbackLast.after.annotations)]

\* A request changes the store only by storing one annotation, only when
\* its key authenticates a client that has a CLA record when the request
\* arrives, and the annotation's annotator_id is that client's id.
FeedbackStoresOnlyForSigners ==
    ~FeedbackStoreUnchanged =>
        /\ FeedbackStoredOne
        /\ feedbackLast.status = 201
        /\ FeedbackAuthenticated
        /\ FeedbackClient \in feedbackLast.before.cla_records
        /\ FeedbackStored.annotator_id = FeedbackClient

\* An unauthenticated request gets 401, a client without a CLA record 403,
\* and the store is unchanged in both cases.
FeedbackRefusals ==
    /\ ~FeedbackAuthenticated =>
          feedbackLast.status = 401 /\ FeedbackStoreUnchanged
    /\ (FeedbackAuthenticated
          /\ FeedbackClient \notin feedbackLast.before.cla_records) =>
          feedbackLast.status = 403 /\ FeedbackStoreUnchanged

C19_WitnessNoCla ==
    /\ feedbackLast.called /\ feedbackLast.status = 403
    /\ FeedbackAuthenticated
    /\ FeedbackClient \notin feedbackLast.before.cla_records

\* An unauthenticated request with a well-formed body was answered 401.
C19_WitnessUnauthenticated ==
    /\ feedbackLast.called /\ feedbackLast.status = 401
    /\ ~FeedbackAuthenticated
    /\ feedbackLast.before.cla_records # {}


(***************************************************************************)
(* C20: the error table of gateway_error_to_response                       *)
(***************************************************************************)
\* The row of the error table for an error, as <<status, type>>.
ErrorTableRow(err) ==
    IF err.variant = "Auth" /\ err.inner = "InvalidApiKey"
        THEN <<401, "authentication_error">>
    ELSE IF err.variant = "Auth" /\ err.inner = "ModelNotPermitted"
        THEN <<403, "permission_error">>
    ELSE IF err.variant = "RateLimited" THEN <<429, "rate_limit_error">>
    ELSE IF err.variant = "QuotaExceeded" THEN <<402, "quota_error">>
    ELSE IF err.variant = "Routing" /\ err.inner = "ModelNotFound"
        THEN <<404, "not_found_error">>
    ELSE IF err.variant = "Routing" /\ err.inner = "NoHealthyBackend"
        THEN <<503, "service_unavailable">>
    ELSE IF err.variant = "Adapter" /\ err.inner = "ParseRequest"
        THEN <<400, "invalid_request_error">>
    ELSE IF err.variant = "Backend"
                /\ err.inner \in {"HttpStatus", "Connection", "Timeout"}
        THEN <<502, "backend_error">>
    ELSE IF err.variant = "Adapter"
                /\ err.inner \in {"FormatResponse", "UnsupportedFeature"}
        THEN <<500, "server_error">>
    ELSE <<0, "">>

\* C20: the response to every gateway error has the status and the type of
\* the error's row in the error table (InvalidApiKey 401
\* authentication_error, ModelNotPermitted 403 permission_error, RateLimited
\* 429 rate_limit_error, QuotaExceeded 402 quota_error, ModelNotFound 404
\* not_found_error, NoHealthyBackend 503 service_unavailable, ParseRequest
\* 400 invalid_request_error, every Backend error 502 backend_error, every
\* other adapter error 500 server_error), and the body's error.code equals
\* the HTTP status.
C20_ErrorTable ==
    errLast.called =>
        /\ errLast.response.status = ErrorTableRow(errLast.err)[1]
        /\ errLast.response.body.error.type = ErrorTableRow(errLast.err)[2]
        /\ errLast.response.body.error.code = errLast.response.status

\* A backend that answered 401 is reported as 502 backend_error.
C20_Witness ==
    /\ errLast.called
    /\ errLast.err.variant = "Backend" /\ errLast.err.inner = "HttpStatus"
    /\ errLast.err.n = 401
    /\ errLast.response.status = 502
    /\ errLast.response.body.error.code = 502


(***************************************************************************)
(* C21: round-robin routing spreads consecutive rounds over the backends   *)
(***************************************************************************)
RRRouted == {i \in DOMAIN rr.reqs : rr.reqs[i].pc = "routed"}

\* The requests of S drew Cardinality(S) consecutive values of the counter.
RRConsecutive(S) ==
    \E k \in 0..MaxRRRequests :
        {rr.reqs[i].round : i \in S} = k..(k + Cardinality(S) - 1)

\* C21: with n Healthy backends with capacity that serve the model, strategy
\* RoundRobin and no hint, any n requests that drew consecutive values of
\* the round counter were routed to n distinct backends, and no two
\* requests drew the same value.
C21_RoundRobinSpreads ==
    /\ \A i, j \in RRRouted : i # j => rr.reqs[i].round # rr.reqs[j].round
    /\ \A S \in SUBSET RRRouted :
          (Cardinality(S) = Len(rr.order) /\ RRConsecutive(S)) =>
              /\ \A i \in S : rr.reqs[i].backend \in {rr.order[k].id : k \in DOMAIN rr.order}
              /\ \A i, j \in S : i # j => rr.reqs[i].backend # rr.reqs[j].backend

\* Four requests over three backends, the first of which drew its round last.
C21_Witness ==
    /\ Len(rr.order) = 3
    /\ RRRouted = DOMAIN rr.reqs /\ Cardinality(RRRouted) > 3
    /\ rr.reqs[1].round = Cardinality(RRRouted) - 1


(***************************************************************************)
(* C22: stream=true selects the streaming pipeline                         *)
(***************************************************************************)
\* The pipeline that handled the latest chat request.
DispatchedTo == PipelineOf(dispatch.handlers[Len(dispatch.handlers)])

\* C22: a POST /v1/chat/completions served by the gateway (run_gateway) is
\* handled by the streaming pipeline when its body has stream=true, and by
\* the buffered pipeline otherwise.
C22_StreamSelectsStreamingPipeline ==
    (dispatch.router = "run_gateway" /\ dispatch.handlers # <<>>) =>
        DispatchedTo = IF StreamRequested(dispatch.body) THEN "streaming"
                       ELSE "buffered"

\* The same under the dispatch handler of the test gateway, where it holds.
C22_UnderTestDispatch ==
    (dispatch.router = "TestGateway" /\ dispatch.handlers # <<>>) =>
        DispatchedTo = IF StreamRequested(dispatch.body) THEN "streaming"
                       ELSE "buffered"


(***************************************************************************)
(* C23: GET /v1/my-annotations shows a client its own annotations only     *)
(***************************************************************************)
\* The client the latest GET authenticated.
MyClient ==
    Unwrap(Validate(clients, extract_feedback_api_key(myLast.headers).key).info).id

\* The store the latest GET read, without the annotations of other clients.
MyOwnStore ==
    LET Own(annotation) == annotation.annotator_id = MyClient
    IN  [myLast.store EXCEPT !.annotations = SelectSeq(@, Own)]

\* An item of the export is the pair of an annotation of the client.
MyPairIsOwn(item) ==
    \E i \in DOMAIN myLast.store.annotations :
        LET a == myLast.store.annotations[i]
            pair == PairOf(myLast.store, NoFilter, a)
        IN  /\ a.annotator_id = MyClient
            /\ IsSome(pair)
            /\ item = [prompt |-> Unwrap(pair).prompt, chosen |-> Unwrap(pair).chosen,
                       rejected |-> Unwrap(pair).rejected]

\* C23: a GET /v1/my-annotations that is answered with data lists only
\* annotations whose annotator_id is the authenticated client's id (and
\* counts only those), exports only pairs of such annotations, and gives
\* the answer it would give if no other client had ever posted feedback;
\* every other answer carries no data.
C23_OwnAnnotationsOnly ==
    myLast.called =>
        IF myLast.response.status = 200
        THEN /\ myLast.response.kind = "list" =>
                  /\ \A i \in DOMAIN myLast.response.items :
                        myLast.response.items[i].annotator_id = MyClient
                  /\ myLast.response.total =
                        Cardinality({i \in DOMAIN myLast.store.annotations :
                            myLast.store.annotations[i].annotator_id = MyClient})
             /\ myLast.response.kind = "dpo" =>
                  \A i \in DOMAIN myLast.response.items :
                        MyPairIsOwn(myLast.response.items[i])
             /\ myLast.response =
                  get_my_annotations(feedback, clients, MyOwnStore, myLast.headers,
                                     myLast.query)
        ELSE myLast.response.items = <<>> /\ myLast.response.total = 0

\* Two clients have posted feedback, and one of them is shown a page of its
\* own annotations.
C23_Witness ==
    /\ myLast.called /\ myLast.response.status = 200
    /\ myLast.response.kind = "list" /\ Len(myLast.response.items) = 1
    /\ \E i \in DOMAIN myLast.store.annotations :
          myLast.store.annotations[i].annotator_id # MyClient

\* The same for the export.
C23_WitnessDpo ==
    /\ myLast.called /\ myLast.response.status = 200
    /\ myLast.response.kind = "dpo" /\ Len(myLast.response.items) = 1
    /\ \E i \in DOMAIN myLast.store.annotations :
          /\ myLast.store.annotations[i].annotator_id # MyClient
          /\ myLast.store.annotations[i].verdict = "Refused"


(***************************************************************************)
(* C24: retry_after_ms is the time until the next slot opens               *)
(***************************************************************************)
\* The latest check was rejected by a limiter that admits requests at all.
RLRejected == rlLast.called /\ ~rlLast.ok /\ limiter.limit >= 1

\* The retry_after_ms of the latest rejection is (earliest retained
\* timestamp + window_ms) - now_ms.
RLRetryAfterFormula ==
    RLRejected =>
        /\ limiter.timestamps # <<>>
        /\ rlLast.retry_after_ms =
              (Head(limiter.timestamps) + limiter.window_ms) - rlLast.now_ms

\* C24: when check(now_ms) rejects, retry_after_ms is (earliest retained
\* timestamp + window_ms) - now_ms, and a check at now_ms + retry_after_ms,
\* with no check in between, is accepted.
C24_RetryAfterOpensSlot ==
    /\ RLRetryAfterFormula
    /\ RLRejected =>
          RateLimiterCheck(limiter, rlLast.now_ms + rlLast.retry_after_ms).ok

\* What the code gives instead: the check at now_ms + retry_after_ms is
\* rejected once more (the earliest timestamp, which is exactly window_ms
\* old, is not pruned) and the one a millisecond later is accepted.
C24_SlotOpensOneLater ==
    RLRejected =>
        /\ ~RateLimiterCheck(limiter, rlLast.now_ms + rlLast.retry_after_ms).ok
        /\ RateLimiterCheck(limiter, rlLast.now_ms + rlLast.retry_after_ms + 1).ok


(***************************************************************************)
(* C25: strategy application of select_backend                             *)
(***************************************************************************)
\* The candidates of the latest call, as indices of the snapshot: the
\* routable backends with capacity if there are any, else all routable ones.
RouteCandidates ==
    IF RoutableWithCapacity(routeLast.model) # {}
    THEN RoutableWithCapacity(routeLast.model) ELSE Routable(routeLast.model)

\* The latest call returned a backend and honored no hint.
RouteByStrategy ==
    routeLast.called /\ routeLast.result.ok /\ ~HintQualifies

\* The index of the backend the latest call returned (ids are distinct).
RouteSelected == CHOOSE i \in DOMAIN snapshot : snapshot[i].id = routeLast.result.id

\* C25: when no hint is honored, LeastLoaded returns the candidate with the
\* minimum active_requests, the first in snapshot order among equally loaded
\* ones; RoundRobin returns the candidate at position round mod |candidates|
\* in snapshot order. Candidates are the Healthy/Degraded serving backends
\* with capacity if any, else all Healthy/Degraded serving backends.
C25_StrategyApplication ==
    RouteByStrategy =>
        /\ RouteSelected \in RouteCandidates
        /\ routeLast.strategy = "LeastLoaded" =>
              \A j \in RouteCandidates :
                  \/ snapshot[RouteSelected].active_requests < snapshot[j].active_requests
                  \/ /\ snapshot[RouteSelected].active_requests = snapshot[j].active_requests
                     /\ RouteSelected <= j
        /\ routeLast.strategy = "RoundRobin" =>
              Cardinality({j \in RouteCandidates : j < RouteSelected})
                  = routeLast.round % Cardinality(RouteCandidates)

\* LeastLoaded passed over the first candidate for a less loaded later one.
C25_Witness ==
    /\ RouteByStrategy /\ routeLast.strategy = "LeastLoaded"
    /\ Cardinality(RouteCandidates) >= 2
    /\ \E j \in RouteCandidates :
          /\ j < RouteSelected
          /\ snapshot[j].active_requests > snapshot[RouteSelected].active_requests

\* RoundRobin took the second of two candidates, and LeastLoaded the first
\* of two equally loaded ones.
C25_WitnessRoundRobin ==
    /\ RouteByStrategy /\ routeLast.strategy = "RoundRobin"
    /\ Cardinality(RouteCandidates) >= 2 /\ routeLast.round % 2 = 1
    /\ \E j \in RouteCandidates : j < RouteSelected


(***************************************************************************)
(* C26: CacheAffinityMap is a least-recently-used map                      *)
(***************************************************************************)
\* The latest call was a record of a key the map did not hold / held.
AffRecordedNew == affLast.op = "record" /\ affLast.key \notin DOMAIN affLast.before
AffRecordedOld == affLast.op = "record" /\ affLast.key \in DOMAIN affLast.before

\* The latest record of a new key made the size exceed max_entries.
AffOverflowed ==
    AffRecordedNew /\ Cardinality(DOMAIN affLast.before) + 1 > affinity.max_entries

\* last_used of key k right after the insertion of the latest record, before
\* any eviction.
AffLastUsed(k) ==
    IF k = affLast.key THEN affinity.counter ELSE affLast.before[k].last_used

\* The keys the latest record removed.
AffRemoved == (DOMAIN affLast.before \cup {affLast.key}) \ DOMAIN affinity.entries

\* C26: every get hit and every record sets last_used of its key to the new
\* counter value; a record of a new key that overflows max_entries removes
\* exactly one entry, the one with the smallest last_used, which for
\* max_entries >= 1 is not the entry just recorded and is older than every
\* surviving entry; a record that does not overflow removes nothing; a record
\* of an existing key overwrites its backend and keeps the size.
C26_TrueLru ==
    /\ (affLast.op = "get" /\ IsSome(affLast.result)) =>
          /\ affinity.entries[affLast.key].last_used = affinity.counter
          /\ \A k \in DOMAIN affinity.entries \ {affLast.key} :
                affinity.entries[k].last_used < affinity.counter
          /\ DOMAIN affinity.entries = DOMAIN affLast.before
    /\ AffOverflowed =>
          /\ Cardinality(AffRemoved) = 1
          /\ \A v \in AffRemoved :
                /\ \A k \in DOMAIN affLast.before \cup {affLast.key} :
                      k # v => AffLastUsed(v) < AffLastUsed(k)
                /\ affinity.max_entries >= 1 => v # affLast.key
          /\ \A k \in DOMAIN affinity.entries \ {affLast.key} :
                affinity.entries[k] = affLast.before[k]
    /\ (AffRecordedNew /\ ~AffOverflowed) =>
          /\ AffRemoved = {}
          /\ affinity.entries[affLast.key].last_used = affinity.counter
    /\ AffRecordedOld =>
          /\ DOMAIN affinity.entries = DOMAIN affLast.before
          /\ affinity.entries[affLast.key].backend = affLast.backend
          /\ affinity.entries[affLast.key].last_used = affinity.counter
          /\ \A k \in DOMAIN affinity.entries \ {affLast.key} :
                affinity.entries[k] = affLast.before[k]

\* An overflowing record evicted an entry that was never touched again while
\* an entry touched by the call just before survived.
C26_Witness ==
    /\ AffOverflowed /\ affinity.max_entries = 2
    /\ \E v \in AffRemoved, k \in DOMAIN affinity.entries \ {affLast.key} :
          /\ affLast.before[v].hit_count = 1
          /\ affLast.before[k].hit_count = 2
          /\ affLast.before[k].last_used = affinity.counter - 1

\* A record of an existing key changed its backend.
C26_WitnessOverwrite ==
    /\ AffRecordedOld
    /\ affLast.before[affLast.key].backend # affLast.backend
    /\ Cardinality(DOMAIN affinity.entries) = affinity.max_entries


(***************************************************************************)
(* C27: the lines SseLineParser yields and the splitting into chunks       *)
(***************************************************************************)
\* The newline-terminated lines of a text, without their newlines.
RECURSIVE NewlineTerminated(_)
NewlineTerminated(text) ==
    LET pos == FindNewline(text)
    IN  IF pos = 0 THEN <<>>
        ELSE <<SubSeq(text, 1, pos - 1)>>
                 \o NewlineTerminated(SubSeq(text, pos + 1, Len(text)))

\* The lines the reassembler is to yield for a text: trailing carriage
\* returns removed, empty lines and comments omitted, "data: " stripped,
\* every other line verbatim.
RECURSIVE LinesYieldedFor(_)
LinesYieldedFor(lines) ==
    IF lines = <<>> THEN <<>>
    ELSE LET line == TrimEndCr(Head(lines))
             rest == LinesYieldedFor(Tail(lines))
         IN  IF line = <<>> \/ Head(line) = ":" THEN rest
             ELSE IF Head(line) = "data: " THEN <<Tail(line)>> \o rest
             ELSE <<line>> \o rest

\* The text the parser has pushed into its buffer: each chunk decoded alone.
RECURSIVE PushedText(_)
PushedText(chunks) ==
    IF chunks = <<>> THEN <<>>
    ELSE from_utf8_lossy(Head(chunks)) \o PushedText(Tail(chunks))

\* Every chunk polled so far is valid UTF-8 on its own.
WholeCharacterChunks ==
    \A c \in DOMAIN sse.chunks :
        \A i \in DOMAIN from_utf8_lossy(sse.chunks[c]) :
            from_utf8_lossy(sse.chunks[c])[i] # "U+FFFD"

\* C27: the lines yielded by the time the stream ends are the lines of the
\* concatenation of the input chunks (newline-terminated, trailing carriage
\* return removed, empty and ':' lines omitted, "data: " stripped, other
\* lines verbatim, in order), however the bytes were split into chunks.
C27_LinesOfConcatenation ==
    sse.done =>
        sse.lines = LinesYieldedFor(NewlineTerminated(
                        from_utf8_lossy(Concatenation(sse.chunks))))

\* What the parser does: the lines are those of the chunks decoded one by
\* one, so the claim holds when no chunk boundary falls inside a character.
C27_LinesOfDecodedChunks ==
    sse.done =>
        /\ sse.lines = LinesYieldedFor(NewlineTerminated(PushedText(sse.chunks)))
        /\ WholeCharacterChunks =>
              sse.lines = LinesYieldedFor(NewlineTerminated(
                              from_utf8_lossy(Concatenation(sse.chunks))))

\* A line was reassembled from two chunks of whole characters.
C27_WitnessWholeCharacters ==
    /\ sse.done /\ WholeCharacterChunks /\ Len(sse.chunks) >= 2
    /\ sse.lines = <<<<"U+00E9">>>>
    /\ sse.chunks[1] = <<"data: ">>


(***************************************************************************)
(* C28: the origin of 400 invalid_request_error                            *)
(***************************************************************************)
\* The GatewayError a request of the pipeline ended with, by its name.
GatewayErrorOf(result) ==
    CASE result \in {"InvalidApiKey", "ModelNotPermitted"} ->
            GatewayErr("Auth", result, "", "", 0, 0, 0)
      [] result \in {"ModelNotFound", "NoHealthyBackend"} ->
            GatewayErr("Routing", result, "", "", 0, 0, 0)
      [] result \in {"Connection", "HttpStatus", "Timeout"} ->
            GatewayErr("Backend", result, "", "", 0, 0, 0)
      [] result \in {"ParseRequest", "FormatResponse", "UnsupportedFeature"} ->
            GatewayErr("Adapter", result, "", "", 0, 0, 0)
      [] OTHER -> GatewayErr(result, "", "", "", 0, 0, 0)

\* The latest step ended its request with 400 invalid_request_error.
AnsweredInvalidRequest ==
    /\ pipeLast.step # "none"
    /\ pipeLast.after.pc = "done" /\ pipeLast.after.result # "ok"
    /\ gateway_error_to_response(GatewayErrorOf(pipeLast.after.result))
          = ErrorResponse(400, "invalid_request_error")

\* C28: a request is answered 400 invalid_request_error only when its own
\* body fails inbound parsing, never for a body of the backend's response
\* that the outbound adapter cannot parse.
C28_InvalidRequestOnlyForClientBody ==
    AnsweredInvalidRequest =>
        /\ ~BodyParses(pipeLast.after.body)
        /\ pipeLast.step # "forward"

\* What the handler does: 400 invalid_request_error answers a request whose
\* body does not parse, at step 2, and a request whose body parses, at
\* step 13, when the backend's response body does not.
C28_InvalidRequestOrigins ==
    AnsweredInvalidRequest =>
        \/ /\ pipeLast.step = "steps1to4"
           /\ ~BodyParses(pipeLast.after.body)
        \/ /\ pipeLast.step = "forward"
           /\ BodyParses(pipeLast.after.body)
           /\ IsSome(pipeLast.after.backend)

\* A request with a valid body was answered 400 invalid_request_error after
\* a backend had been selected for it.
C28_WitnessBackendBody ==
    /\ AnsweredInvalidRequest
    /\ pipeLast.step = "forward"
    /\ BodyParses(pipeLast.after.body)


(***************************************************************************)
(* C29: referential integrity of the feedback store                        *)
(***************************************************************************)
\* Every turn of the store references a stored conversation, and every
\* annotation a stored turn.
DbReferencesResolve(store) ==
    /\ \A t \in DOMAIN store.turns :
          IsSome(get_conversation_by_id(store, store.turns[t].conversation_id))
    /\ \A a \in DOMAIN store.annotations :
          IsSome(get_turn_by_id(store, store.annotations[a].turn_id))

\* The latest call was an insert_turn with an unknown conversation_id / an
\* insert_annotation with an unknown turn_id.
DbUnknownConversation ==
    /\ feedbackDb.last.op = "insert_turn"
    /\ ~IsSome(get_conversation_by_id(feedbackDb.last.before,
                                      feedbackDb.last.conversation_id))
DbUnknownTurn ==
    /\ feedbackDb.last.op = "insert_annotation"
    /\ ~IsSome(get_turn_by_id(feedbackDb.last.before, feedbackDb.last.turn_id))

\* C29: in every reachable store every turn references an existing
\* conversation and every annotation an existing turn; insert_turn with an
\* unknown conversation_id and insert_annotation with an unknown turn_id
\* fail and leave the store unchanged.
C29_ReferentialIntegrity ==
    /\ DbReferencesResolve(feedbackDb.db)
    /\ (DbUnknownConversation \/ DbUnknownTurn) =>
          /\ ~feedbackDb.last.ok
          /\ feedbackDb.db = feedbackDb.last.before

\* An insert_turn with an unknown conversation_id was refused by a store
\* that holds another conversation, a turn of it and an annotation.
C29_Witness ==
    /\ DbUnknownConversation
    /\ feedbackDb.last.turn_id \notin
          {feedbackDb.db.turns[t].id : t \in DOMAIN feedbackDb.db.turns}
    /\ feedbackDb.db.conversations # <<>>
    /\ feedbackDb.db.turns # <<>>
    /\ feedbackDb.db.annotations # <<>>

\* An insert_annotation with an unknown turn_id was refused by a store that
\* holds a turn.
C29_WitnessUnknownTurn ==
    /\ DbUnknownTurn
    /\ feedbackDb.db.turns # <<>>


(***************************************************************************)
(* C30: total_tokens of a canonical response and the amount charged        *)
(***************************************************************************)
\* The latest backend response was parsed into a canonical response.
BillingParsed == billing.called /\ billing.ok

\* The tokens the latest response added to the client's usage.
BillingCharged == TokensUsed(billing.tracker) - billing.used_before

\* C30: every canonical response of parse_response, of either dialect, has
\* total_tokens = prompt_tokens + completion_tokens, and this total is what
\* is charged to the client's quota.
C30_TotalIsSumAndCharged ==
    BillingParsed =>
        /\ billing.usage.total_tokens
              = billing.usage.prompt_tokens + billing.usage.completion_tokens
        /\ BillingCharged = billing.usage.total_tokens

\* What the adapters do: total_tokens is what is charged; for ollama it is
\* the sum of the two counts, for openai-chat it is the backend's own
\* total_tokens, whatever the two counts are.
C30_TotalAsParsed ==
    BillingParsed =>
        /\ BillingCharged = billing.usage.total_tokens
        /\ billing.dialect = "ollama" =>
              billing.usage.total_tokens
                 = billing.usage.prompt_tokens + billing.usage.completion_tokens
        /\ billing.dialect = "openai-chat" =>
              billing.usage.total_tokens = Unwrap(billing.wire.total)

\* An openai-chat response whose total_tokens is below the sum of its counts
\* was charged at its total_tokens.
C30_WitnessTotalBelowSum ==
    /\ BillingParsed /\ billing.dialect = "openai-chat"
    /\ billing.usage.prompt_tokens + billing.usage.completion_tokens
          > billing.usage.total_tokens
    /\ BillingCharged = billing.usage.total_tokens
    /\ billing.used_before > 0


(***************************************************************************)
(* C31: compute_prefix_hash depends on the prefix text only                *)
(***************************************************************************)
\* The text of a message: its string, or the strings of its text parts.
MessageTexts(content) ==
    IF content.kind = "Text" THEN <<content.text>>
    ELSE LET IsText(part) == part.type = "text"
             texts == SelectSeq(content.parts, IsText)
         IN  [p \in DOMAIN texts |-> texts[p].text]

\* The ordered text of the first d system and user messages.
PrefixTextOf(messages, d) ==
    LET IsPrefixRole(msg) == msg.role \in {"system", "user"}
        prefix == SelectSeq(messages, IsPrefixRole)
        n == IF Len(prefix) < d THEN Len(prefix) ELSE d
    IN  [i \in 1..n |-> MessageTexts(prefix[i].content)]

\* The two lists agree on the text of their prefix.
PrefixTextAgrees ==
    PrefixTextOf(prefixPair.a, prefixPair.depth)
        = PrefixTextOf(prefixPair.b, prefixPair.depth)

\* C31: two message lists that agree on the ordered text of their first d
\* system and user messages get the same prefix hash, whatever assistant and
\* tool messages, image parts and later messages they differ in.
C31_HashOfPrefixTextOnly ==
    (prefixPair.hashed /\ PrefixTextAgrees) => prefixPair.hash_a = prefixPair.hash_b

\* Two lists with the same hash of a non-empty prefix, the second with a
\* tool or assistant message before the prefix ends, an image part in the
\* prefix and a user message after the prefix.
C31_Witness ==
    /\ prefixPair.hashed /\ PrefixTextAgrees
    /\ prefixPair.depth = 1
    /\ prefixPair.hash_a # <<>>
    /\ Len(prefixPair.a) = 1 /\ Len(prefixPair.b) = 3
    /\ prefixPair.b[1].role \in {"assistant", "tool"}
    /\ prefixPair.b[2].content.kind = "Parts"
    /\ \E p \in DOMAIN prefixPair.b[2].content.parts :
          prefixPair.b[2].content.parts[p].type = "image_url"
    /\ prefixPair.b[3].role = "user"

\* Two lists whose prefix text differs were hashed to different values.
C31_WitnessDiffers ==
    /\ prefixPair.hashed /\ ~PrefixTextAgrees
    /\ prefixPair.hash_a # prefixPair.hash_b


(***************************************************************************)
(* C32: the order of the timestamps in a client's rate-limit window        *)
(***************************************************************************)
\* The timestamps of the client's limiter, front first.
GateWindow ==
    IF GateClient \in DOMAIN gateLimiters THEN gateLimiters[GateClient].timestamps
    ELSE <<>>

\* C32: under any interleaving of concurrent requests of one client, the
\* timestamps of its window are in non-decreasing order from front to back.
C32_WindowNonDecreasing ==
    \A i, j \in DOMAIN GateWindow : i < j => GateWindow[i] <= GateWindow[j]

\* What the handlers guarantee: every timestamp of the window is a clock
\* value some admitted request read, none later than the clock.
C32_WindowOfClockReadings ==
    \A i \in DOMAIN GateWindow :
        /\ GateWindow[i] <= gateClock
        /\ \E r \in DOMAIN gateReqs :
              /\ gateReqs[r].pc = "done" /\ gateReqs[r].ok
              /\ gateReqs[r].now_ms = GateWindow[i]

\* A timestamp more than a window older than the one in front of it: the
\* pruning loop, which stops at the first timestamp that has not expired,
\* will not remove it while the front stays.
C32_WitnessExpiredBehindFront ==
    \E i, j \in DOMAIN GateWindow :
        i < j /\ GateWindow[j] + RateWindowMs < GateWindow[i]


(***************************************************************************)
(* C33: what a request rejected for its key, body or model leaves behind   *)
(***************************************************************************)
\* The latest step ended its request with one of the three errors.
RejectedForKeyBodyOrModel ==
    /\ pipeLast.step # "none"
    /\ pipeLast.after.pc = "done"
    /\ pipeLast.after.result \in {"InvalidApiKey", "ParseRequest", "ModelNotPermitted"}

\* The steps at which a request writes to the rate limiters (a limiter is
\* created, a timestamp recorded), the affinity map (counter, last_used,
\* entries), the round-robin counter and the quota tracker.
WritingSteps == {"rate_limit", "affinity_get", "route", "quota_record", "affinity_record"}

\* C33: a request rejected with InvalidApiKey, ParseRequest or
\* ModelNotPermitted has written to none of the rate limiters, the quota
\* tracker, the affinity map and the round-robin counter.
C33_RejectedWroteNothing ==
    RejectedForKeyBodyOrModel =>
        \A k \in DOMAIN pipeLast.after.steps : pipeLast.after.steps[k] \notin WritingSteps

\* What the handler guarantees: a request that ends in steps 1 to 4 changes
\* none of the four, and the rate limiters change only in step 5 of a
\* request that has passed steps 1 to 4.
C33_RejectedInSteps1To4WroteNothing ==
    [][/\ (pipeLast' # pipeLast /\ pipeLast'.step = "steps1to4") =>
             UNCHANGED <<rate_limiters, usage, affinity, round_counter>>
       /\ rate_limiters' # rate_limiters =>
             /\ pipeLast'.step = "rate_limit"
             /\ FirstFailure(pipeLast'.after) = ""
             /\ SubSeq(pipeLast'.after.steps, 1, 4)
                   = <<"extract_api_key", "parse_request", "validate",
                       "check_model_permission">>]_vars

\* A request ended with ParseRequest after it had recorded its timestamp in
\* its client's window and had been routed.
C33_WitnessRejectedAfterWriting ==
    /\ RejectedForKeyBodyOrModel
    /\ pipeLast.after.result = "ParseRequest"
    /\ \E k \in DOMAIN pipeLast.after.steps : pipeLast.after.steps[k] = "rate_limit"
    /\ \E k \in DOMAIN pipeLast.after.steps : pipeLast.after.steps[k] = "route"
    /\ Unwrap(pipeLast.after.client).id \in DOMAIN rate_limiters
    /\ \E t \in DOMAIN rate_limiters[Unwrap(pipeLast.after.client).id].timestamps :
          rate_limiters[Unwrap(pipeLast.after.client).id].timestamps[t]
             = pipeLast.after.now_ms
    /\ round_counter > 0


(***************************************************************************)
(* C34: status and failure count of the health manager's backends          *)
(***************************************************************************)
\* The status and the failure count of one backend agree with the threshold.
StatusAgreesWithFailures(state, unhealthy_threshold) ==
    /\ state.status = "Unhealthy" =>
          state.consecutive_failures >= unhealthy_threshold
    /\ (state.status = "Healthy" /\ unhealthy_threshold >= 1) =>
          state.consecutive_failures < unhealthy_threshold

\* C34: in every state of the health manager an Unhealthy backend has at
\* least unhealthy_threshold consecutive failures and, for a threshold of at
\* least 1, a Healthy backend has fewer; a backend that has left the status
\* Unknown never has it again.
C34_StatusMatchesFailureCount ==
    /\ \A id \in DOMAIN backend_states :
          StatusAgreesWithFailures(backend_states[id],
                                   healthCfg.unhealthy_threshold)
    /\ (healthLast.called /\ healthLast.before.status # "Unknown") =>
          backend_states[healthLast.backend].status # "Unknown"

\* One backend is Unhealthy and another is Healthy with a failure behind it,
\* below a threshold of at least 2; the latest probe met a backend that had
\* left Unknown.
C34_Witness ==
    /\ healthCfg.unhealthy_threshold >= 2
    /\ healthLast.called
    /\ healthLast.before.status # "Unknown"
    /\ \E id \in DOMAIN backend_states :
          backend_states[id].status = "Unhealthy"
    /\ \E id \in DOMAIN backend_states :
          /\ backend_states[id].status = "Healthy"
          /\ backend_states[id].consecutive_failures >= 1

(***************************************************************************)
(* C35: the key set of the shared backend-state map                        *)
(***************************************************************************)
\* What a reader collected: an entry for every configured backend.
SeesEveryBackend(seen) ==
    /\ DOMAIN seen = BackendIds
    /\ \A id \in BackendIds :
          /\ seen[id].id = id
          /\ StatusAgreesWithFailures(seen[id], shared_states.unhealthy_threshold)

\* C35: whenever the write lock is not held the map has exactly the
\* configured backends as keys; a key is missing only while the probe loop
\* holds the write lock between its remove and its insert; whatever a router
\* snapshot or GET /health collected has an entry for every configured
\* backend.
C35_KeySetConstant ==
    /\ ~shared_states.lock.writer => DOMAIN shared_states.map = BackendIds
    /\ DOMAIN shared_states.map # BackendIds =>
          /\ shared_states.loop.pc = "insert"
          /\ shared_states.lock.readers = 0
    /\ \A who \in MapReaders :
          shared_states.readers[who].seen # None =>
              SeesEveryBackend(Unwrap(shared_states.readers[who].seen))

\* The router has collected its snapshot and still holds the read lock; the
\* snapshot shows a backend the probe loop has made Unhealthy and another it
\* has made Healthy, and the probe loop waits for the write lock.
C35_Witness ==
    /\ shared_states.loop.pc = "write"
    /\ shared_states.readers["router"].pc = "collected"
    /\ \E id \in BackendIds :
          Unwrap(shared_states.readers["router"].seen)[id].status = "Unhealthy"
    /\ \E id \in BackendIds :
          Unwrap(shared_states.readers["router"].seen)[id].status = "Healthy"

\* The probe loop holds the write lock with the entry of a backend removed.
C35_WitnessRemoved ==
    /\ shared_states.loop.pc = "insert"
    /\ shared_states.lock.writer
    /\ DOMAIN shared_states.map # BackendIds

(***************************************************************************)
(* C36: active_requests in a running gateway                               *)
(***************************************************************************)
\* The backends of the latest snapshot that serve the model and are Healthy
\* or Degraded, in snapshot order.
LoadRoutable ==
    SelectSeq(load.last.snapshot,
              LAMBDA b : ServesModel(b, load.last.model) /\ IsHealthy(b))

\* active_requests is 0 for every backend, a backend with max_concurrent of
\* at least 1 has capacity, and with_request_completed leaves the 0.
LoadIsZero ==
    \A id \in BackendIds :
        /\ load.states[id].active_requests = 0
        /\ load.states[id].max_concurrent >= 1 => HasCapacity(load.states[id])
        /\ WithRequestCompleted(load.states[id]).active_requests = 0

C36_WitnessBothWithCapacity ==
    /\ load.last.called /\ load.last.hint = None /\ load.last.result.ok
    /\ Len(LoadRoutable) >= 2
    /\ \A k \in DOMAIN LoadRoutable : LoadRoutable[k].max_concurrent >= 1
    /\ load.last.result.id = LoadRoutable[1].id


(***************************************************************************)
(* C37: the turns of one chat request in the listing and in the export     *)
(***************************************************************************)
\* The calls whose two turns are stored.
ChatsStored ==
    {i \in 1..MaxChats : chats.calls[i].pc = "done" /\ chats.calls[i].assistant_ok}

\* The listing of the conversation of the i-th call.
ChatListing(i) ==
    get_turns_for_conversation(chats.store, chats.calls[i].conversation_id)

\* The export after a client has annotated the assistant turn of the i-th
\* call with an expected response.
ChatExport(i) ==
    export_dpo_pairs(
        insert_annotation(chats.store,
            [turn_id |-> AssistantTurnId(i), annotator_id |-> "c1",
             verdict |-> "Refused", expected_response |-> Some(<<"a">>),
             created_at |-> 0]).store,
        NoFilter)

\* The listing has the user turn of the i-th call before its assistant turn.
UserBeforeAssistant(i) ==
    Position(ChatListing(i), UserTurnId(i)) >= 1
    /\ Position(ChatListing(i), UserTurnId(i))
          < Position(ChatListing(i), AssistantTurnId(i))

\* The annotation on the assistant turn of the i-th call is exported as one
\* pair whose prompt is the user message of the i-th request.
ExportedWithOwnPrompt(i) ==
    /\ Len(ChatExport(i)) = 1
    /\ ChatExport(i)[1].rejected = AssistantContent(i)
    /\ ChatExport(i)[1].prompt = UserContent(i)

\* C37: for the user turn and the assistant turn that record_chat_turns
\* stores for one chat request, the listing of the conversation's turns has
\* the user turn before the assistant turn, so an annotation on that
\* assistant turn is exported with that request's user message as prompt.
C37_ExportedWithOwnUserMessage ==
    \A i \in ChatsStored : UserBeforeAssistant(i) /\ ExportedWithOwnPrompt(i)

\* Another turn of the conversation with the same created_at, stored between
\* the two turns of the i-th call.
SameStampBetween(i) ==
    \E k \in DOMAIN ChatListing(i) :
        /\ Position(ChatListing(i), UserTurnId(i)) < k
        /\ k < Position(ChatListing(i), AssistantTurnId(i))

\* What holds of the stored turns: the user turn is listed before the
\* assistant turn, and the annotation is exported with the request's own
\* user message when no other turn is listed between the two.
C37_UserTurnListedFirst ==
    \A i \in ChatsStored :
        /\ UserBeforeAssistant(i)
        /\ ~SameStampBetween(i) => ExportedWithOwnPrompt(i)

\* Two requests of one conversation read the same clock value and their
\* inserts interleave: the annotation on the assistant turn of the first is
\* exported with the user message of the second as prompt.
C37_WitnessPromptOfOtherRequest ==
    /\ 1 \in ChatsStored /\ 2 \in ChatsStored
    /\ chats.calls[1].conversation_id = chats.calls[2].conversation_id
    /\ chats.calls[1].now = chats.calls[2].now
    /\ Len(ChatExport(1)) = 1
    /\ ChatExport(1)[1].rejected = AssistantContent(1)
    /\ ChatExport(1)[1].prompt = UserContent(2)

(***************************************************************************)
(* C38: a chat request on a conversation id that is already stored         *)
(***************************************************************************)
\* The calls that found their conversation id stored.
ChatsOnExisting ==
    {i \in 1..MaxChats : chats.calls[i].pc \in {"user", "assistant", "done"}
                         /\ IsSome(chats.calls[i].existing)}

\* C38: conversation ids are unique in the store; for a chat request whose
\* X-Conversation-Id is already stored insert_conversation fails and the
\* stored row stays as it was, the recording goes on, both turns are
\* appended to that conversation, and the caller gets the 200 response that
\* a request gets of which nothing is recorded.
C38_ExistingConversationKept ==
    /\ \A a, b \in DOMAIN chats.store.conversations :
          a # b => chats.store.conversations[a].id # chats.store.conversations[b].id
    /\ \A i \in ChatsOnExisting :
          LET call == chats.calls[i]
          IN  /\ ~call.conversation_ok
              /\ get_conversation_by_id(chats.store, call.conversation_id)
                    = call.existing
              /\ call.pc = "done" =>
                    /\ call.user_ok /\ call.assistant_ok
                    /\ UserBeforeAssistant(i)
                    /\ call.response = 200
    /\ \A i \in 1..MaxChats : chats.calls[i].pc = "done" => chats.calls[i].response = 200

\* The second request named the conversation the first had stored, with
\* another model: the row is the first one's, and the listing has the turns
\* of both requests.
C38_Witness ==
    /\ 2 \in ChatsOnExisting
    /\ chats.calls[2].pc = "done"
    /\ Unwrap(chats.calls[2].existing).model_id # ChatModel(2)
    /\ Len(ChatListing(2)) = 4

(***************************************************************************)
(* C39: the month of current_year_month                                    *)
(***************************************************************************)
\* The year of the time fits in 16 bits.
YearFitsU16(time) == time.days <= LastDayOfU16

\* (year, month) of p is not after (year, month) of q.
PeriodNotAfter(p, q) ==
    p.year < q.year \/ (p.year = q.year /\ p.month <= q.month)

\* C39: for every time whose year fits in 16 bits the month computed by
\* current_year_month is in 1..12, so YearMonth::new does not panic, and the
\* period computed at an earlier time is not after the period computed now.
C39_MonthInRangeAndMonotonic ==
    YearFitsU16(month_clock.time) =>
        /\ month_clock.period.month \in 1..12
        /\ PeriodNotAfter(month_clock.earlier, month_clock.period)

\* A reading on one of the last five days of a 365-day block, where
\* days % 365 / 30 + 1 is 13 and the month is clamped to 12, after a reading
\* in an earlier month.
C39_Witness ==
    /\ YearFitsU16(month_clock.time)
    /\ (month_clock.time.days % 365) \div 30 + 1 = 13
    /\ month_clock.period.month = 12
    /\ month_clock.earlier.month < 12

\* A reading in the year after an earlier reading: the month starts again
\* at 1 and the year is one more.
C39_WitnessNextYear ==
    /\ YearFitsU16(month_clock.time)
    /\ month_clock.period.year = month_clock.earlier.year + 1
    /\ month_clock.period.month < month_clock.earlier.month

(***************************************************************************)
(* C40: affinity stickiness                                                *)
(***************************************************************************)
\* The backend is in the snapshot, serves the model, is Healthy or Degraded
\* and has capacity.
RoutableIn(states_vec, id, model) ==
    \E k \in DOMAIN states_vec :
        /\ states_vec[k].id = id
        /\ ServesModel(states_vec[k], model)
        /\ states_vec[k].status \in {"Healthy", "Degraded"}
        /\ states_vec[k].active_requests < states_vec[k].max_concurrent

\* The latest request had the hint B and B was routable in its snapshot.
StickyHintRoutable ==
    /\ sticky.last.called /\ IsSome(sticky.last.hint)
    /\ RoutableIn(sticky.last.snapshot, Unwrap(sticky.last.hint), sticky.last.model)

\* C40: an entry of the affinity map names the backend on which the latest
\* successful request of its model and prefix was served; a request finds
\* that backend as its hint while the entry is there; it is routed to it
\* when it is Healthy or Degraded with capacity in the request's snapshot;
\* else it is routed by the strategy and, on success, the entry names the
\* backend selected.
C40_Stickiness ==
    /\ \A key \in DOMAIN sticky.affinity.entries :
          sticky.affinity.entries[key].backend = sticky.succeeded[key]
    /\ \A i \in 1..MaxSticky :
          sticky.pending[i].at # "idle" =>
              sticky.pending[i].hint = sticky.pending[i].entry
    /\ sticky.last.called =>
          LET l == sticky.last
              key == <<l.model, l.prefix>>
          IN  /\ StickyHintRoutable =>
                    l.result = [ok |-> TRUE, err |-> "", id |-> Unwrap(l.hint)]
              /\ ~StickyHintRoutable =>
                    l.result = SelectBackend(l.snapshot, l.model, sticky.strategy,
                                             l.round, None)
              /\ (l.result.ok /\ l.answered) =>
                    sticky.succeeded[key] = l.result.id

\* A request found the backend of an earlier success as its hint and was
\* routed to it, although the strategy would have selected another backend.
C40_Witness ==
    /\ StickyHintRoutable
    /\ sticky.last.result.ok
    /\ SelectBackend(sticky.last.snapshot, sticky.last.model, sticky.strategy,
                     sticky.last.round, None).id # sticky.last.result.id

\* A request found a hint whose backend was Unhealthy in its snapshot, was
\* routed by the strategy to another backend and answered: the entry names
\* the new backend.
C40_WitnessOverwritten ==
    /\ sticky.last.called /\ IsSome(sticky.last.hint) /\ ~StickyHintRoutable
    /\ sticky.last.result.ok /\ sticky.last.answered
    /\ sticky.last.result.id # Unwrap(sticky.last.hint)
    /\ <<sticky.last.model, sticky.last.prefix>> \in DOMAIN sticky.affinity.entries
    /\ sticky.affinity.entries[<<sticky.last.model, sticky.last.prefix>>].backend
          = sticky.last.result.id
====
